---- MODULE Spec2Model ----
(***************************************************************************)
(* Model of server/logs_to_games.py: the protocol line classifier          *)
(* (LogParser), and the per-game state reconstructor (LogProcessor, Game). *)
(* The input file is produced line by line: every line action reads one    *)
(* more line of the file, classifies it as LogParser.go does and hands the *)
(* yielded event to the LogProcessor handler of its line type.             *)
(***************************************************************************)
EXTENDS Integers, Sequences, FiniteSets, TLC

(***************************************************************************)
(* Bounds of the model.                                                    *)
(***************************************************************************)
\* number of lines a file holds at most
MaxLines == 5
\* number of commands a batch of SpecReorder holds at most
MaxBatchLen == 3

(***************************************************************************)
(* Python values.                                                          *)
(***************************************************************************)
\* Python's None where a string or a line type is expected
None == "None"
\* JSON null where a number is expected (command[3] of SetGamePlayerClientId)
JsonNull == -1
\* Python's None in a tile rack slot (a tile is a pair <<x, y>>)
NoTile == << >>
\* an empty dict
EmptyDict == << >>

\* dict[k] = v on a dict whose order is never observed
Put(d, k, v) == [x \in (DOMAIN d) \cup {k} |-> IF x = k THEN v ELSE d[x]]
\* del dict[k]
Del(d, k) == [x \in (DOMAIN d) \ {k} |-> d[x]]

\* A dict whose iteration (insertion) order is observed is a sequence of
\* [k, v] items in insertion order.
OD_Keys(d) == {d[i].k : i \in DOMAIN d}
OD_Has(d, k) == k \in OD_Keys(d)
OD_Get(d, k) == d[CHOOSE i \in DOMAIN d : d[i].k = k].v
\* d[k] = v: an existing key keeps its place, a new key goes last
OD_Put(d, k, v) ==
    IF OD_Has(d, k)
    THEN [i \in DOMAIN d |-> IF d[i].k = k THEN [k |-> k, v |-> v] ELSE d[i]]
    ELSE Append(d, [k |-> k, v |-> v])
\* del d[k]
OD_Del(d, k) == SelectSeq(d, LAMBDA e : e.k # k)
\* list(d.values())
OD_Values(d) == [i \in DOMAIN d |-> d[i].v]

(***************************************************************************)
(* Program constants.                                                      *)
(***************************************************************************)
\* enums.GameBoardTypes.Nothing
GameBoardTypeNothing == "Nothing"
BoardWidth == 12
BoardHeight == 9
NumTileRacks == 6
TileRackSize == 6
\* the cells of game.board
Coordinates == {<<x, y>> : x \in 0..(BoardWidth - 1), y \in 0..(BoardHeight - 1)}

(***************************************************************************)
(* LogParser: the line classifier.                                         *)
(*                                                                         *)
(* A line is given by the shape of its text (which regular expressions of  *)
(* _line_matchers_and_handlers match it) and by what its payload decodes   *)
(* to.  Shapes:                                                            *)
(*   time                   "time: <digits and dots>"; float_ok says       *)
(*                          whether float() accepts the text ("1.2.3" and  *)
(*                          "." match the regex and are refused by float)  *)
(*   command_to_client      "<ids> <- <payload>"                           *)
(*   command_to_server      "<id> -> <payload>"                            *)
(*   log                    "{<payload>"                                   *)
(*   connect, disconnect, game_expired, connection_made, blank             *)
(*   disconnect_after_error "<n> -> <id> disconnect"                       *)
(*   error                  a line matching one of regexes_to_ignore       *)
(*   other                  a line no regular expression matches           *)
(* decodes_to of a payload is "invalid_json" (ujson.decode raises          *)
(* ValueError), "not_a_list" (valid JSON that is no array of arrays) or    *)
(* "ok".                                                                   *)
(***************************************************************************)
LineTypes == {"time", "connect", "disconnect", "command_to_client", "command_to_server",
              "game_expired", "log", "blank_line", "connection_made", "error"}

\* codes of Enums.lookups['CommandsToClient'] whose name contains 'SetGamePlayer'
EnumSetGamePlayer == {"SetGamePlayerJoin", "SetGamePlayerRejoin", "SetGamePlayerLeave",
                      "SetGamePlayerJoinMissing", "SetGamePlayerUsername", "SetGamePlayerClientId"}
EnumSetGameBoardCell == "SetGameBoardCell"

\* min and max of a non-empty set of integers
Min(S) == CHOOSE x \in S : \A y \in S : x <= y
Max(S) == CHOOSE x \in S : \A y \in S : x >= y

\* faulty variant: the commands after the last SetGamePlayer* command are lost
ReorderCommands_losing_tail(commands) ==
    LET enum_set_game_board_cell_indexes ==
            {i \in DOMAIN commands : commands[i][1] = EnumSetGameBoardCell}
        enum_set_game_player_indexes ==
            {i \in DOMAIN commands : commands[i][1] \in EnumSetGamePlayer}
    IN  IF /\ enum_set_game_board_cell_indexes # {}
           /\ enum_set_game_player_indexes # {}
           /\ Min(enum_set_game_board_cell_indexes) < Min(enum_set_game_player_indexes)
        THEN LET min_index == Min(enum_set_game_player_indexes)
                 max_index == Max(enum_set_game_player_indexes)
             IN  SubSeq(commands, min_index, max_index)
                 \o SubSeq(commands, 1, min_index - 1)
        ELSE commands

\* LogParser._handle_command_to_client, lines 210-224: the SetGamePlayer*
\* commands are moved to the front when a SetGameBoardCell command precedes
\* the first of them.  command[0] of the source is command[1] here.
ReorderCommands(commands) ==
    LET enum_set_game_board_cell_indexes ==
            {i \in DOMAIN commands : commands[i][1] = EnumSetGameBoardCell}
        enum_set_game_player_indexes ==
            {i \in DOMAIN commands : commands[i][1] \in EnumSetGamePlayer}
    IN  IF /\ enum_set_game_board_cell_indexes # {}
           /\ enum_set_game_player_indexes # {}
           /\ Min(enum_set_game_board_cell_indexes) < Min(enum_set_game_player_indexes)
        THEN LET min_index == Min(enum_set_game_player_indexes)
                 max_index == Max(enum_set_game_player_indexes)
             IN  SubSeq(commands, min_index, max_index)
                 \o SubSeq(commands, 1, min_index - 1)
                 \o SubSeq(commands, max_index + 1, Len(commands))
        ELSE commands

\* What a LogParser handler returns: parse_line_data, None, 'stop', or an
\* exception that leaves LogParser.go.
Data(d) == [kind |-> "data", data |-> d]
ReturnsNone == [kind |-> "none", data |-> << >>]
ReturnsStop == [kind |-> "stop", data |-> << >>]
Raises == [kind |-> "raise", data |-> << >>]

LogParser_handle_time(line) ==
    IF line.float_ok THEN Data(<<line.time>>) ELSE Raises

\* faulty variant: the ValueError of ujson.decode is not caught
LogParser_handle_command_to_client_without_except(line) ==
    CASE line.decodes_to \in {"invalid_json", "not_a_list"} -> Raises
      [] OTHER -> Data(<<line.client_ids, ReorderCommands(line.commands)>>)

LogParser_handle_command_to_client(line) ==
    CASE line.decodes_to = "invalid_json" -> ReturnsNone
      [] line.decodes_to = "not_a_list" -> Raises
      [] OTHER -> Data(<<line.client_ids, ReorderCommands(line.commands)>>)

LogParser_handle_command_to_server(line) ==
    CASE line.shape = "disconnect_after_error" -> ReturnsNone
      [] line.decodes_to = "invalid_json" -> ReturnsNone
      [] OTHER -> Data(<<line.client_id, line.command>>)

LogParser_handle_log(line) ==
    IF line.decodes_to = "invalid_json" THEN ReturnsNone ELSE Data(<<line.entry>>)

LogParser_handle_connect(line) == Data(<<line.client_id, line.username>>)

LogParser_handle_disconnect(line) == Data(<<line.client_id>>)

LogParser_handle_game_expired(line) == Data(<<line.game_id>>)

\* faulty variant: no connection_made line stops the parser
LogParser_handle_connection_made_never_stops(count) == Data(<< >>)

\* count is self._connection_made_count after the increment
LogParser_handle_connection_made(count) ==
    IF count = 1 THEN Data(<< >>) ELSE ReturnsStop

\* self._line_matchers_and_handlers, in matching order: the line type, the
\* line shapes the regular expression matches, the handler
LineMatchersAndHandlers == <<
    [line_type |-> "time", shapes |-> {"time"}, handler |-> "_handle_time"],
    [line_type |-> "command_to_client", shapes |-> {"command_to_client"},
     handler |-> "_handle_command_to_client"],
    [line_type |-> "blank_line", shapes |-> {"blank"}, handler |-> None],
    [line_type |-> "command_to_server", shapes |-> {"command_to_server", "disconnect_after_error"},
     handler |-> "_handle_command_to_server"],
    [line_type |-> "log", shapes |-> {"log"}, handler |-> "_handle_log"],
    [line_type |-> "connect", shapes |-> {"connect"}, handler |-> "_handle_connect"],
    [line_type |-> "disconnect", shapes |-> {"disconnect"}, handler |-> "_handle_disconnect"],
    [line_type |-> "game_expired", shapes |-> {"game_expired"}, handler |-> "_handle_game_expired"],
    [line_type |-> "connect", shapes |-> {"connect_old"}, handler |-> "_handle_connect"],
    [line_type |-> "disconnect", shapes |-> {"disconnect_after_error"}, handler |-> "_handle_disconnect"],
    [line_type |-> "command_to_server", shapes |-> {"command_to_server_after_connect"},
     handler |-> "_handle_command_to_server"],
    [line_type |-> "connection_made", shapes |-> {"connection_made"},
     handler |-> "_handle_connection_made"],
    [line_type |-> "error", shapes |-> {"error"}, handler |-> None] >>

\* handler(match) of LogParser.go; count is the connection_made count so far
CallParserHandler(handler, line, count) ==
    CASE handler = "_handle_time" -> LogParser_handle_time(line)
      [] handler = "_handle_command_to_client" -> LogParser_handle_command_to_client(line)
      [] handler = "_handle_command_to_server" -> LogParser_handle_command_to_server(line)
      [] handler = "_handle_log" -> LogParser_handle_log(line)
      [] handler = "_handle_connect" -> LogParser_handle_connect(line)
      [] handler = "_handle_disconnect" -> LogParser_handle_disconnect(line)
      [] handler = "_handle_game_expired" -> LogParser_handle_game_expired(line)
      [] handler = "_handle_connection_made" -> LogParser_handle_connection_made(count + 1)

\* The loop over self._line_matchers_and_handlers of LogParser.go, from
\* matcher i on.  The result: the handled line type, the parse_line_data, and
\* how the loop ended ("yield": the line is yielded; "stop": the file is
\* left; "raise": a handler raised).
RECURSIVE MatchLine(_, _, _)
MatchLine(i, line, count) ==
    IF i > Len(LineMatchersAndHandlers)
    THEN [handled_line_type |-> None, parse_line_data |-> << >>, kind |-> "yield"]
    ELSE LET m == LineMatchersAndHandlers[i]
         IN  IF line.shape \notin m.shapes
             THEN MatchLine(i + 1, line, count)
             ELSE IF m.handler = None
             THEN [handled_line_type |-> m.line_type, parse_line_data |-> << >>, kind |-> "yield"]
             ELSE LET r == CallParserHandler(m.handler, line, count)
                  IN  CASE r.kind = "none" -> MatchLine(i + 1, line, count)
                        [] r.kind = "stop" ->
                             [handled_line_type |-> m.line_type, parse_line_data |-> << >>,
                              kind |-> "stop"]
                        [] r.kind = "raise" ->
                             [handled_line_type |-> m.line_type, parse_line_data |-> << >>,
                              kind |-> "raise"]
                        [] OTHER ->
                             [handled_line_type |-> m.line_type, parse_line_data |-> r.data,
                              kind |-> "yield"]

(***************************************************************************)
(* Game: the reconstructed state of one game.                              *)
(***************************************************************************)
\* the timestamp LogProcessor is constructed with (test_individual_game_log)
LogTimestamp == 1432798259

\* The tile_bag of a Game: None, or the list a 'tile-bag' field gave.  The
\* two are kept apart by is_none; line 754 takes None and [] as false.
NoTileBag == [is_none |-> TRUE, list |-> << >>]
LoggedTileBag(list) == [is_none |-> FALSE, list |-> list]

\* Game.__init__; oid tells the Game objects apart (the n-th Game created)
NewGame(log_timestamp, game_id, internal_game_id, oid) ==
    [log_timestamp |-> log_timestamp,
     game_id |-> game_id,
     internal_game_id |-> internal_game_id,
     oid |-> oid,
     state |-> None,
     mode |-> None,
     max_players |-> None,
     tile_bag |-> NoTileBag,
     begin |-> None,
     end |-> None,
     score |-> None,
     player_id_to_username |-> EmptyDict,
     username_to_player_id |-> EmptyDict,
     player_join_order |-> << >>,
     board |-> [c \in Coordinates |-> GameBoardTypeNothing],
     score_sheet_players |-> [r \in 0..5 |-> <<0, 0, 0, 0, 0, 0, 0, 60>>],
     score_sheet_chain_size |-> <<0, 0, 0, 0, 0, 0, 0>>,
     played_tiles_order |-> << >>,
     tile_rack_tiles |-> {},
     initial_tile_racks |-> [r \in 0..(NumTileRacks - 1) |-> [i \in 0..(TileRackSize - 1) |-> NoTile]],
     tile_racks |-> [r \in 0..(NumTileRacks - 1) |-> [i \in 0..(TileRackSize - 1) |-> NoTile]],
     additional_tile_rack_tiles_order |-> << >>,
     actions |-> << >>,
     username_to_game_history |-> EmptyDict,
     expired |-> FALSE]

(***************************************************************************)
(* LogProcessor.  The handlers are functions of the LogProcessor object    *)
(* lp (a record of its fields); a handler that raises returns the object   *)
(* as the exception leaves it, with raised set.                            *)
(***************************************************************************)
\* LogProcessor.__init__ (the verbose switch is off, its default)
NewLogProcessor ==
    [log_timestamp |-> LogTimestamp,
     client_id_to_username |-> EmptyDict,
     username_to_client_id |-> EmptyDict,
     client_id_to_game_id |-> EmptyDict,
     game_id_to_game |-> EmptyDict,
     delayed_calls |-> << >>,
     expired_games |-> << >>,
     time |-> None,
     games_created |-> 0,
     printed_tracebacks |-> {},
     raised |-> FALSE]

Raise(lp) == [lp EXCEPT !.raised = TRUE]

LogProcessor_handle_time(lp, time) == [lp EXCEPT !.time = time]

LogProcessor_handle_connect(lp, client_id, username) ==
    [lp EXCEPT !.client_id_to_username = OD_Put(@, client_id, username),
               !.username_to_client_id = Put(@, username, client_id)]

\* faulty variant: the entry is deleted when the disconnect line is handled
LogProcessor_handle_disconnect_at_once(lp, client_id) ==
    [lp EXCEPT !.client_id_to_username = OD_Del(@, client_id)]

\* the call is [self._handle_disconnect__delayed, [client_id]]
LogProcessor_handle_disconnect(lp, client_id) ==
    [lp EXCEPT !.delayed_calls = Append(@, client_id)]

\* {username: client_id for client_id, username in d.items()}: of the items
\* with the same username the last one stays
InvertDict(d) ==
    [username \in {d[i].v : i \in DOMAIN d} |->
        d[Max({i \in DOMAIN d : d[i].v = username})].k]

LogProcessor_handle_disconnect__delayed(lp, client_id) ==
    IF ~OD_Has(lp.client_id_to_username, client_id)
    THEN Raise(lp)
    ELSE LET client_id_to_username == OD_Del(lp.client_id_to_username, client_id)
         IN  [lp EXCEPT !.client_id_to_username = client_id_to_username,
                        !.username_to_client_id = InvertDict(client_id_to_username)]

\* for func, args in self._delayed_calls: func(*args), from call i on
RECURSIVE RunDelayedCalls(_, _)
RunDelayedCalls(lp, i) ==
    IF i > Len(lp.delayed_calls)
    THEN lp
    ELSE LET lp1 == LogProcessor_handle_disconnect__delayed(lp, lp.delayed_calls[i])
         IN  IF lp1.raised THEN lp1 ELSE RunDelayedCalls(lp1, i + 1)

LogProcessor_handle_blank_line(lp) ==
    IF lp.delayed_calls # << >>
    THEN LET lp1 == RunDelayedCalls(lp, 1)
         IN  IF lp1.raised THEN lp1 ELSE [lp1 EXCEPT !.delayed_calls = << >>]
    ELSE lp

\* faulty variant: the expired game stays in game_id_to_game
LogProcessor_handle_game_expired_keeps_game(lp, game_id) ==
    IF ~OD_Has(lp.game_id_to_game, game_id)
    THEN Raise(lp)
    ELSE LET game == [OD_Get(lp.game_id_to_game, game_id) EXCEPT !.expired = TRUE]
         IN  [lp EXCEPT !.expired_games = Append(@, game)]

\* faulty variant: the game stays in game_id_to_game while a client is in it
LogProcessor_handle_game_expired_keeping_routed_game(lp, game_id) ==
    IF ~OD_Has(lp.game_id_to_game, game_id)
    THEN Raise(lp)
    ELSE LET game == [OD_Get(lp.game_id_to_game, game_id) EXCEPT !.expired = TRUE]
         IN  [lp EXCEPT !.expired_games = Append(@, game),
                        !.game_id_to_game =
                            IF \E c \in DOMAIN lp.client_id_to_game_id :
                                   lp.client_id_to_game_id[c] = game_id
                            THEN OD_Put(@, game_id, game)
                            ELSE OD_Del(@, game_id)]

LogProcessor_handle_game_expired(lp, game_id) ==
    IF ~OD_Has(lp.game_id_to_game, game_id)
    THEN Raise(lp)
    ELSE LET game == [OD_Get(lp.game_id_to_game, game_id) EXCEPT !.expired = TRUE]
         IN  [lp EXCEPT !.expired_games = Append(@, game),
                        !.game_id_to_game = OD_Del(@, game_id)]

\* faulty variant: the external game id is not looked at
EntryGameId_without_external(entry) == entry["game-id"]

\* an entry is a dict: DOMAIN entry are its keys
EntryGameId(entry) ==
    IF "external-game-id" \in DOMAIN entry THEN entry["external-game-id"] ELSE entry["game-id"]

\* faulty variant: the history of the username is made empty each time
LogEntryGamePlayer_fresh_history(game, entry) ==
    LET player_id == entry["player-id"]
        username == entry["username"]
    IN  [game EXCEPT
            !.player_id_to_username = OD_Put(@, player_id, username),
            !.username_to_player_id = Put(@, username, player_id),
            !.player_join_order =
                IF \E i \in DOMAIN @ : @[i] = username THEN @ ELSE Append(@, username),
            !.username_to_game_history = Put(@, username, << >>)]

\* lines 555-566, the entry being a 'game-player' entry
LogEntryGamePlayer(game, entry) ==
    LET player_id == entry["player-id"]
        username == entry["username"]
    IN  [game EXCEPT
            !.player_id_to_username = OD_Put(@, player_id, username),
            !.username_to_player_id = Put(@, username, player_id),
            !.player_join_order =
                IF \E i \in DOMAIN @ : @[i] = username THEN @ ELSE Append(@, username),
            !.username_to_game_history =
                IF username \in DOMAIN @ THEN @ ELSE Put(@, username, << >>)]

\* lines 568-583
LogEntryFields(game, entry) ==
    [game EXCEPT
        !.state = IF "state" \in DOMAIN entry THEN entry["state"] ELSE @,
        !.mode = IF "mode" \in DOMAIN entry THEN entry["mode"] ELSE @,
        !.max_players = IF "max-players" \in DOMAIN entry THEN entry["max-players"] ELSE @,
        !.tile_bag = IF "tile-bag" \in DOMAIN entry THEN LoggedTileBag(entry["tile-bag"]) ELSE @,
        !.begin = IF "begin" \in DOMAIN entry THEN entry["begin"] ELSE @,
        !.end = IF "end" \in DOMAIN entry THEN entry["end"] ELSE @,
        !.score = IF "scores" \in DOMAIN entry THEN entry["scores"]
                  ELSE IF "score" \in DOMAIN entry THEN entry["score"] ELSE @]

LogProcessor_handle_log(lp, entry) ==
    IF "game-id" \notin DOMAIN entry
    THEN Raise(lp)
    ELSE
    LET game_id == EntryGameId(entry)
        internal_game_id == entry["game-id"]
        found == OD_Has(lp.game_id_to_game, game_id)
        game == IF found
                THEN OD_Get(lp.game_id_to_game, game_id)
                ELSE NewGame(lp.log_timestamp, game_id, internal_game_id, lp.games_created + 1)
        lp1 == IF found
               THEN lp
               ELSE [lp EXCEPT !.game_id_to_game = OD_Put(@, game_id, game),
                               !.games_created = @ + 1]
    IN  IF "_" \notin DOMAIN entry
        THEN Raise(lp1)
        ELSE IF entry["_"] = "game-player"
        THEN IF {"player-id", "username"} \subseteq DOMAIN entry
             THEN [lp1 EXCEPT !.game_id_to_game =
                                   OD_Put(@, game_id, LogEntryGamePlayer(game, entry))]
             ELSE Raise(lp1)
        ELSE [lp1 EXCEPT !.game_id_to_game = OD_Put(@, game_id, LogEntryFields(game, entry))]

(***************************************************************************)
(* LogProcessor: the handlers of the commands sent to clients.  A command  *)
(* is the sequence of its JSON array: command[0] of the source is          *)
(* command[1] here, client_ids[0] is client_ids[1].                        *)
(***************************************************************************)
\* self._game_id_to_game[self._client_id_to_game_id[client_id]] raises no KeyError
ClientHasGame(lp, client_id) ==
    /\ client_id \in DOMAIN lp.client_id_to_game_id
    /\ OD_Has(lp.game_id_to_game, lp.client_id_to_game_id[client_id])

GameOfClient(lp, client_id) == OD_Get(lp.game_id_to_game, lp.client_id_to_game_id[client_id])

SetGameOfClient(lp, client_id, game) ==
    [lp EXCEPT !.game_id_to_game = OD_Put(@, lp.client_id_to_game_id[client_id], game)]

\* game.username_to_player_id[self._client_id_to_username[client_id]] raises no KeyError
ClientHasPlayer(lp, game, client_id) ==
    /\ OD_Has(lp.client_id_to_username, client_id)
    /\ OD_Get(lp.client_id_to_username, client_id) \in DOMAIN game.username_to_player_id

PlayerOfClient(lp, game, client_id) ==
    game.username_to_player_id[OD_Get(lp.client_id_to_username, client_id)]

\* lines 400-404: in each of the first len(player_id_to_username) racks the
\* first slot holding the tile is emptied
RemoveTileFromTileRacks(game, tile) ==
    [game EXCEPT !.tile_racks =
        [r \in DOMAIN @ |->
            IF r < Len(game.player_id_to_username) /\ \E i \in DOMAIN @[r] : @[r][i] = tile
            THEN [@[r] EXCEPT ![Min({i \in DOMAIN @[r] : @[r][i] = tile})] = NoTile]
            ELSE @[r]]]

LogProcessor_handle_command_to_client__set_game_board_cell(lp, client_ids, command) ==
    LET client_id == client_ids[1]
        x == command[2]
        y == command[3]
        game_board_type_id == command[4]
        tile == <<x, y>>
    IN  IF ~ClientHasGame(lp, client_id) \/ tile \notin Coordinates
        THEN Raise(lp)
        ELSE LET game == GameOfClient(lp, client_id)
                 game1 == IF game.board[tile] = GameBoardTypeNothing
                          THEN RemoveTileFromTileRacks(
                                   [game EXCEPT !.played_tiles_order = Append(@, tile)], tile)
                          ELSE game
             IN  SetGameOfClient(lp, client_id, [game1 EXCEPT !.board[tile] = game_board_type_id])

\* index is 0-based as in the source; the rows are sequences
LogProcessor_handle_command_to_client__set_score_sheet_cell(lp, client_ids, command) ==
    LET client_id == client_ids[1]
        row == command[2]
        index == command[3]
        value == command[4]
    IN  IF ~ClientHasGame(lp, client_id)
        THEN Raise(lp)
        ELSE LET game == GameOfClient(lp, client_id)
             IN  IF row < 6
                 THEN IF index + 1 \in DOMAIN game.score_sheet_players[row]
                      THEN SetGameOfClient(lp, client_id,
                               [game EXCEPT !.score_sheet_players[row][index + 1] = value])
                      ELSE Raise(lp)
                 ELSE IF index + 1 \in DOMAIN game.score_sheet_chain_size
                      THEN SetGameOfClient(lp, client_id,
                               [game EXCEPT !.score_sheet_chain_size[index + 1] = value])
                      ELSE Raise(lp)

\* score_sheet_data is <<rows, chain_size>>, rows a sequence of at most 6 rows
LogProcessor_handle_command_to_client__set_score_sheet(lp, client_ids, command) ==
    LET client_id == client_ids[1]
        score_sheet_data == command[2]
    IN  IF ~ClientHasGame(lp, client_id)
        THEN Raise(lp)
        ELSE LET game == GameOfClient(lp, client_id)
             IN  SetGameOfClient(lp, client_id,
                     [game EXCEPT
                         !.score_sheet_players =
                             [r \in DOMAIN @ |-> IF r < Len(score_sheet_data[1])
                                                 THEN score_sheet_data[1][r + 1] ELSE @[r]],
                         !.score_sheet_chain_size = score_sheet_data[2]])

LogProcessor_add_client_id_to_game(lp, game_id, client_id) ==
    [lp EXCEPT !.client_id_to_game_id = Put(@, client_id, game_id)]

LogProcessor_remove_client_id_from_game(lp, client_id) ==
    IF client_id \in DOMAIN lp.client_id_to_game_id
    THEN [lp EXCEPT !.client_id_to_game_id = Del(@, client_id)]
    ELSE lp

LogProcessor_remove_player_id_from_game(lp, game_id, player_id) ==
    IF ~OD_Has(lp.game_id_to_game, game_id)
    THEN lp
    ELSE LET game == OD_Get(lp.game_id_to_game, game_id)
         IN  IF \/ ~OD_Has(game.player_id_to_username, player_id)
                \/ OD_Get(game.player_id_to_username, player_id) \notin DOMAIN lp.username_to_client_id
             THEN Raise(lp)
             ELSE LogProcessor_remove_client_id_from_game(lp,
                      lp.username_to_client_id[OD_Get(game.player_id_to_username, player_id)])

LogProcessor_handle_command_to_client__set_game_player_join(lp, client_ids, command) ==
    LogProcessor_add_client_id_to_game(lp, command[2], command[4])

LogProcessor_handle_command_to_client__set_game_player_rejoin(lp, client_ids, command) ==
    LogProcessor_add_client_id_to_game(lp, command[2], command[4])

LogProcessor_handle_command_to_client__set_game_player_leave(lp, client_ids, command) ==
    LogProcessor_remove_client_id_from_game(lp, command[4])

LogProcessor_handle_command_to_client__set_game_watcher_client_id(lp, client_ids, command) ==
    LogProcessor_add_client_id_to_game(lp, command[2], command[3])

LogProcessor_handle_command_to_client__return_watcher_to_lobby(lp, client_ids, command) ==
    LogProcessor_remove_client_id_from_game(lp, command[3])

LogProcessor_handle_command_to_client__set_game_player_client_id(lp, client_ids, command) ==
    IF command[4] = JsonNull
    THEN LogProcessor_remove_player_id_from_game(lp, command[2], command[3])
    ELSE LogProcessor_add_client_id_to_game(lp, command[2], command[4])

\* faulty variant: a tile is appended to additional_tile_rack_tiles_order
\* when it differs from the tile the used slot holds
LogProcessor_handle_command_to_client__set_tile_appends_different(lp, client_ids, command) ==
    LET client_id == client_ids[1]
        tile_index == command[2]
        tile == <<command[3], command[4]>>
    IN  IF ~ClientHasGame(lp, client_id)
        THEN Raise(lp)
        ELSE LET game == GameOfClient(lp, client_id)
             IN  IF ~ClientHasPlayer(lp, game, client_id)
                 THEN Raise(lp)
                 ELSE LET player_id == PlayerOfClient(lp, game, client_id)
                      IN  IF \/ player_id \notin DOMAIN game.initial_tile_racks
                             \/ tile_index \notin DOMAIN game.initial_tile_racks[player_id]
                          THEN Raise(lp)
                          ELSE LET game1 ==
                                       IF game.initial_tile_racks[player_id][tile_index] = NoTile
                                       THEN [game EXCEPT
                                                !.tile_rack_tiles = @ \cup {tile},
                                                !.initial_tile_racks[player_id][tile_index] = tile]
                                       ELSE IF game.tile_racks[player_id][tile_index] # tile
                                       THEN [game EXCEPT
                                                !.tile_rack_tiles = @ \cup {tile},
                                                !.additional_tile_rack_tiles_order = Append(@, tile)]
                                       ELSE game
                               IN  SetGameOfClient(lp, client_id,
                                       [game1 EXCEPT !.tile_racks[player_id][tile_index] = tile])

LogProcessor_handle_command_to_client__set_tile(lp, client_ids, command) ==
    LET client_id == client_ids[1]
        tile_index == command[2]
        tile == <<command[3], command[4]>>
    IN  IF ~ClientHasGame(lp, client_id)
        THEN Raise(lp)
        ELSE LET game == GameOfClient(lp, client_id)
             IN  IF ~ClientHasPlayer(lp, game, client_id)
                 THEN Raise(lp)
                 ELSE LET player_id == PlayerOfClient(lp, game, client_id)
                      IN  IF \/ player_id \notin DOMAIN game.initial_tile_racks
                             \/ tile_index \notin DOMAIN game.initial_tile_racks[player_id]
                          THEN Raise(lp)
                          ELSE LET game1 ==
                                       IF game.initial_tile_racks[player_id][tile_index] = NoTile
                                       THEN [game EXCEPT
                                                !.tile_rack_tiles = @ \cup {tile},
                                                !.initial_tile_racks[player_id][tile_index] = tile]
                                       ELSE IF tile \notin game.tile_rack_tiles
                                       THEN [game EXCEPT
                                                !.tile_rack_tiles = @ \cup {tile},
                                                !.additional_tile_rack_tiles_order = Append(@, tile)]
                                       ELSE game
                               IN  SetGameOfClient(lp, client_id,
                                       [game1 EXCEPT !.tile_racks[player_id][tile_index] = tile])

LogProcessor_handle_command_to_client__remove_tile(lp, client_ids, command) ==
    LET client_id == client_ids[1]
        tile_index == command[2]
    IN  IF ~ClientHasGame(lp, client_id)
        THEN Raise(lp)
        ELSE LET game == GameOfClient(lp, client_id)
             IN  IF ~ClientHasPlayer(lp, game, client_id)
                 THEN Raise(lp)
                 ELSE LET player_id == PlayerOfClient(lp, game, client_id)
                      IN  IF \/ player_id \notin DOMAIN game.tile_racks
                             \/ tile_index \notin DOMAIN game.tile_racks[player_id]
                          THEN Raise(lp)
                          ELSE SetGameOfClient(lp, client_id,
                                   [game EXCEPT !.tile_racks[player_id][tile_index] = NoTile])

(***************************************************************************)
(* The game history messages.  A message is the sequence of its JSON       *)
(* array: message[0] of the source is message[1] here.  Its second entry   *)
(* is a player id or, once translated, a username: it is written           *)
(* <<"int", n>> or <<"str", s>>, which isinstance(message[1], int) tells   *)
(* apart.                                                                  *)
(***************************************************************************)
PyInt(n) == <<"int", n>>
PyStr(str) == <<"str", str>>
IsInstanceInt(value) == value[1] = "int"

GameHistoryMessagesDrewPositionTile == "DrewPositionTile"
GameHistoryMessagesTurnBegan == "TurnBegan"
DrewOrReplacedTileMessageIds == {"DrewPositionTile", "DrewTile", "ReplacedDeadTile"}

\* Game.translate_add_game_history_message raises KeyError
TranslateRaises(game, message) ==
    /\ message[1] = GameHistoryMessagesDrewPositionTile
    /\ IsInstanceInt(message[2])
    /\ ~OD_Has(game.player_id_to_username, message[2][2])

Game_translate_add_game_history_message(game, message) ==
    IF message[1] = GameHistoryMessagesDrewPositionTile /\ IsInstanceInt(message[2])
    THEN [message EXCEPT ![2] = PyStr(OD_Get(game.player_id_to_username, message[2][2]))]
    ELSE message

\* the loop over client_ids of _handle_command_to_client__add_game_history_message,
\* from client i on: what it has appended stays when a later client raises
RECURSIVE AddGameHistoryMessageLoop(_, _, _, _)
AddGameHistoryMessageLoop(lp, client_ids, command, i) ==
    IF i > Len(client_ids)
    THEN lp
    ELSE LET client_id == client_ids[i]
         IN  IF ~ClientHasGame(lp, client_id) \/ ~OD_Has(lp.client_id_to_username, client_id)
             THEN Raise(lp)
             ELSE LET game == GameOfClient(lp, client_id)
                      username == OD_Get(lp.client_id_to_username, client_id)
                  IN  IF username \notin DOMAIN game.username_to_player_id
                      THEN AddGameHistoryMessageLoop(lp, client_ids, command, i + 1)
                      ELSE IF \/ TranslateRaises(game, Tail(command))
                              \/ username \notin DOMAIN game.username_to_game_history
                      THEN Raise(lp)
                      ELSE AddGameHistoryMessageLoop(
                               SetGameOfClient(lp, client_id,
                                   [game EXCEPT !.username_to_game_history[username] =
                                       Append(@, Game_translate_add_game_history_message(
                                                     game, Tail(command)))]),
                               client_ids, command, i + 1)

LogProcessor_handle_command_to_client__add_game_history_message(lp, client_ids, command) ==
    AddGameHistoryMessageLoop(lp, client_ids, command, 1)

\* faulty variant: the translated messages are appended to the history
RECURSIVE AddGameHistoryMessagesLoop_appending(_, _, _, _)
AddGameHistoryMessagesLoop_appending(lp, client_ids, command, i) ==
    IF i > Len(client_ids)
    THEN lp
    ELSE LET client_id == client_ids[i]
             messages == command[2]
         IN  IF ~ClientHasGame(lp, client_id) \/ ~OD_Has(lp.client_id_to_username, client_id)
             THEN Raise(lp)
             ELSE LET game == GameOfClient(lp, client_id)
                      username == OD_Get(lp.client_id_to_username, client_id)
                  IN  IF username \notin DOMAIN game.username_to_player_id
                      THEN AddGameHistoryMessagesLoop_appending(lp, client_ids, command, i + 1)
                      ELSE IF \E k \in DOMAIN messages : TranslateRaises(game, messages[k])
                      THEN Raise(lp)
                      ELSE AddGameHistoryMessagesLoop_appending(
                               SetGameOfClient(lp, client_id,
                                   [game EXCEPT !.username_to_game_history[username] =
                                       @ \o [k \in DOMAIN messages |->
                                               Game_translate_add_game_history_message(
                                                   game, messages[k])]]),
                               client_ids, command, i + 1)

\* the loop of _handle_command_to_client__add_game_history_messages: the
\* history of the username is assigned the translated messages of command[1]
RECURSIVE AddGameHistoryMessagesLoop(_, _, _, _)
AddGameHistoryMessagesLoop(lp, client_ids, command, i) ==
    IF i > Len(client_ids)
    THEN lp
    ELSE LET client_id == client_ids[i]
             messages == command[2]
         IN  IF ~ClientHasGame(lp, client_id) \/ ~OD_Has(lp.client_id_to_username, client_id)
             THEN Raise(lp)
             ELSE LET game == GameOfClient(lp, client_id)
                      username == OD_Get(lp.client_id_to_username, client_id)
                  IN  IF username \notin DOMAIN game.username_to_player_id
                      THEN AddGameHistoryMessagesLoop(lp, client_ids, command, i + 1)
                      ELSE IF \E k \in DOMAIN messages : TranslateRaises(game, messages[k])
                      THEN Raise(lp)
                      ELSE AddGameHistoryMessagesLoop(
                               SetGameOfClient(lp, client_id,
                                   [game EXCEPT !.username_to_game_history =
                                       Put(@, username,
                                           [k \in DOMAIN messages |->
                                               Game_translate_add_game_history_message(
                                                   game, messages[k])])]),
                               client_ids, command, i + 1)

LogProcessor_handle_command_to_client__add_game_history_messages(lp, client_ids, command) ==
    AddGameHistoryMessagesLoop(lp, client_ids, command, 1)

\* self._commands_to_client_handlers: the codes that have a handler
CommandsToClientHandled ==
    {"SetGameBoardCell", "SetScoreSheetCell", "SetScoreSheet", "SetGamePlayerJoin",
     "SetGamePlayerRejoin", "SetGamePlayerLeave", "SetGameWatcherClientId",
     "ReturnWatcherToLobby", "AddGameHistoryMessage", "AddGameHistoryMessages", "SetTile",
     "RemoveTile", "SetGamePlayerClientId"}

\* handler(client_ids, command) for handler = self._commands_to_client_handlers.get(command[0])
CallCommandToClientHandler(lp, client_ids, command) ==
    CASE command[1] = "SetGameBoardCell" ->
             LogProcessor_handle_command_to_client__set_game_board_cell(lp, client_ids, command)
      [] command[1] = "SetScoreSheetCell" ->
             LogProcessor_handle_command_to_client__set_score_sheet_cell(lp, client_ids, command)
      [] command[1] = "SetScoreSheet" ->
             LogProcessor_handle_command_to_client__set_score_sheet(lp, client_ids, command)
      [] command[1] = "SetGamePlayerJoin" ->
             LogProcessor_handle_command_to_client__set_game_player_join(lp, client_ids, command)
      [] command[1] = "SetGamePlayerRejoin" ->
             LogProcessor_handle_command_to_client__set_game_player_rejoin(lp, client_ids, command)
      [] command[1] = "SetGamePlayerLeave" ->
             LogProcessor_handle_command_to_client__set_game_player_leave(lp, client_ids, command)
      [] command[1] = "SetGameWatcherClientId" ->
             LogProcessor_handle_command_to_client__set_game_watcher_client_id(lp, client_ids, command)
      [] command[1] = "ReturnWatcherToLobby" ->
             LogProcessor_handle_command_to_client__return_watcher_to_lobby(lp, client_ids, command)
      [] command[1] = "AddGameHistoryMessage" ->
             LogProcessor_handle_command_to_client__add_game_history_message(lp, client_ids, command)
      [] command[1] = "AddGameHistoryMessages" ->
             LogProcessor_handle_command_to_client__add_game_history_messages(lp, client_ids, command)
      [] command[1] = "SetTile" ->
             LogProcessor_handle_command_to_client__set_tile(lp, client_ids, command)
      [] command[1] = "RemoveTile" ->
             LogProcessor_handle_command_to_client__remove_tile(lp, client_ids, command)
      [] command[1] = "SetGamePlayerClientId" ->
             LogProcessor_handle_command_to_client__set_game_player_client_id(lp, client_ids, command)
      [] OTHER -> lp

\* One turn of the loop of _handle_command_to_client: the try block around
\* the handler of command i; an exception is printed and dropped, and what
\* the handler had changed before it raised stays.
DispatchCommandToClient(lp, client_ids, commands, i) ==
    LET lp1 == CallCommandToClientHandler(lp, client_ids, commands[i])
    IN  IF lp1.raised
        THEN [lp1 EXCEPT !.raised = FALSE, !.printed_tracebacks = @ \cup {i}]
        ELSE lp1

\* faulty variant: the try block is around the loop, the first exception ends it
RECURSIVE CommandToClientLoop_try_around_loop(_, _, _, _)
CommandToClientLoop_try_around_loop(lp, client_ids, commands, i) ==
    IF i > Len(commands)
    THEN lp
    ELSE LET lp1 == DispatchCommandToClient(lp, client_ids, commands, i)
         IN  IF i \in lp1.printed_tracebacks
             THEN lp1
             ELSE CommandToClientLoop_try_around_loop(lp1, client_ids, commands, i + 1)

\* for command in commands, from command i on
RECURSIVE CommandToClientLoop(_, _, _, _)
CommandToClientLoop(lp, client_ids, commands, i) ==
    IF i > Len(commands)
    THEN lp
    ELSE CommandToClientLoop(DispatchCommandToClient(lp, client_ids, commands, i),
                             client_ids, commands, i + 1)

LogProcessor_handle_command_to_client(lp, client_ids, commands) ==
    CommandToClientLoop(lp, client_ids, commands, 1)

(***************************************************************************)
(* LogProcessor: the commands sent to the server.                          *)
(***************************************************************************)
\* `if game_id:` of line 530: None and 0 are both false
Truthy(game_id) == game_id # 0

\* the recorded action is [player_id, command[1:]]
LogProcessor_handle_command_to_server__do_game_action(lp, client_id, command) ==
    IF client_id \notin DOMAIN lp.client_id_to_game_id
    THEN lp
    ELSE LET game_id == lp.client_id_to_game_id[client_id]
         IN  IF ~Truthy(game_id)
             THEN lp
             ELSE IF ~OD_Has(lp.game_id_to_game, game_id) \/ ~OD_Has(lp.client_id_to_username, client_id)
             THEN Raise(lp)
             ELSE LET game == OD_Get(lp.game_id_to_game, game_id)
                      username == OD_Get(lp.client_id_to_username, client_id)
                  IN  IF username \in DOMAIN game.username_to_player_id
                      THEN [lp EXCEPT !.game_id_to_game = OD_Put(@, game_id,
                               [game EXCEPT !.actions = Append(@,
                                   <<game.username_to_player_id[username], Tail(command)>>)])]
                      ELSE lp

\* the try block of _handle_command_to_server
LogProcessor_handle_command_to_server(lp, client_id, command) ==
    LET lp1 == IF command[1] = "DoGameAction"
               THEN LogProcessor_handle_command_to_server__do_game_action(lp, client_id, command)
               ELSE lp
    IN  IF lp1.raised
        THEN [lp1 EXCEPT !.raised = FALSE, !.printed_tracebacks = @ \cup {1}]
        ELSE lp1

(***************************************************************************)
(* LogProcessor.go: one turn of its loop.                                  *)
(***************************************************************************)
\* handler(*parse_line_data) for handler = self._line_type_to_handler.get(line_type)
CallLineHandler(lp, line_type, parse_line_data) ==
    CASE line_type = "time" -> LogProcessor_handle_time(lp, parse_line_data[1])
      [] line_type = "connect" ->
             LogProcessor_handle_connect(lp, parse_line_data[1], parse_line_data[2])
      [] line_type = "disconnect" -> LogProcessor_handle_disconnect(lp, parse_line_data[1])
      [] line_type = "command_to_client" ->
             LogProcessor_handle_command_to_client(lp, parse_line_data[1], parse_line_data[2])
      [] line_type = "command_to_server" ->
             LogProcessor_handle_command_to_server(lp, parse_line_data[1], parse_line_data[2])
      [] line_type = "game_expired" -> LogProcessor_handle_game_expired(lp, parse_line_data[1])
      [] line_type = "log" -> LogProcessor_handle_log(lp, parse_line_data[1])
      [] line_type = "blank_line" -> LogProcessor_handle_blank_line(lp)
      [] line_type = "connection_made" -> LogProcessor_handle_blank_line(lp)
      [] line_type = "error" -> LogProcessor_handle_blank_line(lp)
      [] OTHER -> lp

(***************************************************************************)
(* The lines of a file.                                                    *)
(***************************************************************************)
TimeLine(time, float_ok) == [shape |-> "time", time |-> time, float_ok |-> float_ok]
ConnectLine(client_id, username) ==
    [shape |-> "connect", client_id |-> client_id, username |-> username]
DisconnectLine(client_id) == [shape |-> "disconnect", client_id |-> client_id]
DisconnectAfterErrorLine(client_id) == [shape |-> "disconnect_after_error", client_id |-> client_id]
GameExpiredLine(game_id) == [shape |-> "game_expired", game_id |-> game_id]
LogLine(entry) == [shape |-> "log", decodes_to |-> "ok", entry |-> entry]
InvalidLogLine == [shape |-> "log", decodes_to |-> "invalid_json"]
CommandToClientLine(client_ids, commands) ==
    [shape |-> "command_to_client", decodes_to |-> "ok", client_ids |-> client_ids,
     commands |-> commands]
InvalidCommandToClientLine(decodes_to) == [shape |-> "command_to_client", decodes_to |-> decodes_to]
CommandToServerLine(client_id, command) ==
    [shape |-> "command_to_server", decodes_to |-> "ok", client_id |-> client_id,
     command |-> command]
BlankLine == [shape |-> "blank"]
ConnectionMadeLine == [shape |-> "connection_made"]
ErrorLine == [shape |-> "error"]
OtherLine == [shape |-> "other"]

(***************************************************************************)
(* The state: where LogProcessor.go and the LogParser.go it drives are     *)
(*   pc = "reading"        in the loop over the lines of the file          *)
(*        "eof"            LogParser.go has left its loop (the file is     *)
(*                         exhausted or the second connection_made read)   *)
(*        "end_of_stream"  LogParser.go has ended, LogProcessor.go is at   *)
(*                         its last loop (line 354)                        *)
(*        "done"           LogProcessor.go has ended                       *)
(*        "fault"          an exception has left LogProcessor.go           *)
(* log_parser: line_number, handled_line_type and _connection_made_count,  *)
(* and whether an exception has left LogParser.go; event: the tuple        *)
(* LogParser.go yielded last; log_processor: the LogProcessor object;      *)
(* emitted: the games LogProcessor.go has yielded.                         *)
(***************************************************************************)
VARIABLES pc, log_parser, event, log_processor, emitted

vars == <<pc, log_parser, event, log_processor, emitted>>

NoEvent == [line_type |-> None, line_number |-> 0, line |-> OtherLine, parse_line_data |-> << >>]

Init ==
    /\ pc = "reading"
    /\ log_parser = [line_number |-> 0, handled_line_type |-> None, connection_made_count |-> 0,
                     raised |-> FALSE]
    /\ event = NoEvent
    /\ log_processor = NewLogProcessor
    /\ emitted = << >>

\* LogProcessor.go, lines 345-352, for the event ev LogParser.go yields; the
\* run goes on at next_pc unless the handler raises
HandleEvent(ev, next_pc) ==
    LET lp1 == CallLineHandler([log_processor EXCEPT !.printed_tracebacks = {}],
                               ev.line_type, ev.parse_line_data)
    IN  /\ event' = ev
        /\ IF lp1.raised
           THEN /\ pc' = "fault"
                /\ log_processor' = lp1
                /\ emitted' = emitted
           ELSE /\ pc' = next_pc
                /\ log_processor' = [lp1 EXCEPT !.expired_games = << >>]
                /\ emitted' = emitted \o lp1.expired_games

\* One turn of the loop of LogParser.go (lines 161-192) on the next line of
\* the file, and of the loop of LogProcessor.go on what it yields; next_pc
\* is "reading" when the file has a line after this one.
ReadLineThen(line, next_pc) ==
    /\ pc = "reading"
    /\ log_parser.line_number < MaxLines
    /\ LET m == MatchLine(1, line, log_parser.connection_made_count)
           line_number == log_parser.line_number + 1
       IN  /\ log_parser' =
                 [line_number |-> line_number,
                  handled_line_type |-> m.handled_line_type,
                  connection_made_count |->
                      IF line.shape = "connection_made"
                      THEN log_parser.connection_made_count + 1
                      ELSE log_parser.connection_made_count,
                  raised |-> m.kind = "raise"]
           /\ CASE m.kind = "raise" ->
                       /\ pc' = "fault"
                       /\ UNCHANGED <<event, log_processor, emitted>>
                [] m.kind = "stop" ->
                       /\ pc' = "eof"
                       /\ UNCHANGED <<event, log_processor, emitted>>
                [] OTHER ->
                       HandleEvent([line_type |-> m.handled_line_type,
                                    line_number |-> line_number,
                                    line |-> line,
                                    parse_line_data |-> m.parse_line_data], next_pc)

\* a line that ends with '\n': lines 164-165 take the '\n' off
ReadLine(line) == ReadLineThen(line, "reading")

\* A line that does not end with '\n' is the last one the iteration over
\* the file gives; lines 164-165 leave it as it is, and the loop ends after
\* it is yielded.
ReadUnterminatedLine(line) == ReadLineThen(line, "eof")

\* the file has no further line
EndOfFile ==
    /\ pc = "reading"
    /\ pc' = "eof"
    /\ UNCHANGED <<log_parser, event, log_processor, emitted>>

\* LogParser.go, lines 194-196, and the turn of LogProcessor.go on the blank
\* line it yields
FinalBlankLine ==
    /\ pc = "eof"
    /\ UNCHANGED log_parser
    /\ IF log_parser.handled_line_type # "blank_line"
       THEN HandleEvent([line_type |-> "blank_line",
                         line_number |-> log_parser.line_number + 1,
                         line |-> BlankLine,
                         parse_line_data |-> << >>], "end_of_stream")
       ELSE /\ pc' = "end_of_stream"
            /\ UNCHANGED <<event, log_processor, emitted>>

\* LogProcessor.go, lines 354-355: the games still open are yielded
EndOfStream ==
    /\ pc = "end_of_stream"
    /\ pc' = "done"
    /\ emitted' = emitted \o OD_Values(log_processor.game_id_to_game)
    /\ UNCHANGED <<log_parser, event, log_processor>>

(***************************************************************************)
(* The lines the files of the specifications are made of.                  *)
(***************************************************************************)
ClientIds == {0, 1}
Usernames == {"alice", "bob"}
GameIds == {0, 1}

\* a structured entry is a dict
Entry(kind, game_id) == ("_" :> kind) @@ ("game-id" :> game_id)
WithExternalGameId(entry, game_id) == ("external-game-id" :> game_id) @@ entry

\* entries that name a game, with and without an external game id, and
\* entries that lack 'game-id' or '_'
GameEntries ==
    {Entry("game", g) @@ ("state" :> "InProgress") : g \in GameIds}
    \cup {WithExternalGameId(Entry("game", g), 1) : g \in GameIds}
    \cup {("_" :> "game"), ("game-id" :> 0), WithExternalGameId(("_" :> "game"), 1)}

TimeLines == {TimeLine(100, TRUE), TimeLine(100, FALSE)}
ConnectLines == {ConnectLine(c, u) : c \in ClientIds, u \in Usernames}
DisconnectLines == {DisconnectLine(c) : c \in ClientIds}
GameExpiredLines == {GameExpiredLine(g) : g \in GameIds}

PlayerIds == {0, 1}

\* 'game-player' entries of game g
GamePlayerEntries(g) ==
    {Entry("game-player", g) @@ ("player-id" :> p) @@ ("username" :> u) :
        p \in PlayerIds, u \in Usernames}

\* One action for each shape of line; lines is the set its line is drawn from.
ReadTime ==
    \E line \in TimeLines : line.shape = "time" /\ ReadLine(line)
ReadConnect(lines) ==
    \E line \in lines : line.shape = "connect" /\ ReadLine(line)
ReadDisconnect ==
    \E line \in DisconnectLines : line.shape = "disconnect" /\ ReadLine(line)
ReadGameExpired(lines) ==
    \E line \in lines : line.shape = "game_expired" /\ ReadLine(line)
ReadLog(entries) ==
    \E entry \in entries : DOMAIN entry # {} /\ ReadLine(LogLine(entry))
ReadCommandToClient(lines) ==
    \E line \in lines : line.shape = "command_to_client" /\ ReadLine(line)
ReadCommandToServer(lines) ==
    \E line \in lines : line.shape = "command_to_server" /\ ReadLine(line)
ReadBlankLine ==
    BlankLine.shape = "blank" /\ ReadLine(BlankLine)
ReadConnectionMade ==
    ConnectionMadeLine.shape = "connection_made" /\ ReadLine(ConnectionMadeLine)
ReadError ==
    ErrorLine.shape = "error" /\ ReadLine(ErrorLine)
\* a line that yields no typed event
ReadUnclassified ==
    \E line \in {OtherLine, InvalidLogLine} : line.shape \in {"other", "log"} /\ ReadLine(line)

(***************************************************************************)
(* Spec: files of time, connect, disconnect, game-expired, structured      *)
(* entry, blank, connection_made, diagnostic and unclassified lines.       *)
(***************************************************************************)
Next ==
    \/ ReadTime
    \/ ReadConnect(ConnectLines)
    \/ ReadDisconnect
    \/ ReadGameExpired(GameExpiredLines)
    \/ ReadLog(GameEntries)
    \/ ReadBlankLine
    \/ ReadConnectionMade
    \/ ReadError
    \/ ReadUnclassified
    \/ EndOfFile
    \/ FinalBlankLine
    \/ EndOfStream

Spec == Init /\ [][Next]_vars

(***************************************************************************)
(* SpecPlayers: files of 'game-player' entries of game 1, of lines that    *)
(* expire it and of blank lines.                                           *)
(***************************************************************************)
NextPlayers ==
    \/ ReadLog(GamePlayerEntries(1))
    \/ ReadGameExpired({GameExpiredLine(1)})
    \/ ReadBlankLine
    \/ EndOfFile
    \/ FinalBlankLine
    \/ EndOfStream

SpecPlayers == Init /\ [][NextPlayers]_vars

(***************************************************************************)
(* The commands of the files below.  Client 0 is the one they are about.   *)
(***************************************************************************)
SetGamePlayerJoin(game_id, player_id, client_id) ==
    <<"SetGamePlayerJoin", game_id, player_id, client_id>>
SetGameBoardCell(x, y, game_board_type_id) == <<"SetGameBoardCell", x, y, game_board_type_id>>
SetTile(tile_index, x, y) == <<"SetTile", tile_index, x, y>>
RemoveTile(tile_index) == <<"RemoveTile", tile_index>>
DoGameAction(game_action_id) == <<"DoGameAction", game_action_id>>

(***************************************************************************)
(* SpecActions: files in which alice is made player 0 of game 0 or 1,      *)
(* alice or bob connects as client 0, client 0 joins game 0 or 1, clients  *)
(* 0 and 1 send game actions, and the games expire.                        *)
(***************************************************************************)
GameActionIds == {1, 2}
ActionPlayerEntries ==
    {Entry("game-player", g) @@ ("player-id" :> 0) @@ ("username" :> "alice") : g \in GameIds}
ActionConnectLines == {ConnectLine(0, u) : u \in Usernames}
ActionJoinLines == {CommandToClientLine(<<0>>, <<SetGamePlayerJoin(g, 0, 0)>>) : g \in GameIds}
DoGameActionLines ==
    {CommandToServerLine(0, DoGameAction(a)) : a \in GameActionIds}
    \cup {CommandToServerLine(1, DoGameAction(1))}

NextActions ==
    \/ ReadLog(ActionPlayerEntries)
    \/ ReadConnect(ActionConnectLines)
    \/ ReadCommandToClient(ActionJoinLines)
    \/ ReadCommandToServer(DoGameActionLines)
    \/ ReadGameExpired(GameExpiredLines)
    \/ EndOfFile
    \/ FinalBlankLine
    \/ EndOfStream

SpecActions == Init /\ [][NextActions]_vars

(***************************************************************************)
(* SpecBoard: files in which alice is made player 0 or 1 of game 1, alice  *)
(* or bob connects as client 0, and client 0 is sent batches that make it  *)
(* join game 1, put tile (0, 0) in slot 0 or 1 of its rack, empty slot 0,  *)
(* and set the board cell (0, 0) or a cell off the board; game 1 expires.  *)
(***************************************************************************)
BoardPlayerEntries ==
    {Entry("game-player", 1) @@ ("player-id" :> p) @@ ("username" :> "alice") : p \in PlayerIds}
BoardConnectLines == {ConnectLine(0, u) : u \in Usernames}
BoardBatches ==
    {<<SetGamePlayerJoin(1, 0, 0)>>,
     <<SetTile(0, 0, 0)>>,
     <<SetTile(1, 0, 0)>>,
     <<SetGameBoardCell(0, 0, "NothingYet")>>,
     <<RemoveTile(0), SetGamePlayerJoin(1, 0, 0)>>,
     <<SetTile(0, 0, 0), SetGameBoardCell(0, 0, "NothingYet")>>,
     <<SetGameBoardCell(BoardWidth, 0, "NothingYet"), SetTile(0, 0, 0)>>}
BoardBatchLines == {CommandToClientLine(<<0>>, commands) : commands \in BoardBatches}

NextBoard ==
    \/ ReadLog(BoardPlayerEntries)
    \/ ReadConnect(BoardConnectLines)
    \/ ReadCommandToClient(BoardBatchLines)
    \/ ReadGameExpired({GameExpiredLine(1)})
    \/ EndOfFile
    \/ FinalBlankLine
    \/ EndOfStream

SpecBoard == Init /\ [][NextBoard]_vars

(***************************************************************************)
(* SpecRack: files in which alice is made player 0 of game 1 and connects  *)
(* as client 0, and client 0 is sent batches that make it join game 1, put *)
(* tile (0, 0) or (1, 0) in slot 0 or 1 of its rack and empty slot 0.      *)
(***************************************************************************)
RackBatches ==
    {<<SetGamePlayerJoin(1, 0, 0)>>,
     <<SetGamePlayerJoin(1, 0, 0), SetTile(0, 0, 0)>>,
     <<SetTile(0, 0, 0)>>,
     <<SetTile(0, 1, 0)>>,
     <<SetTile(1, 1, 0)>>,
     <<RemoveTile(0)>>}
RackBatchLines == {CommandToClientLine(<<0>>, commands) : commands \in RackBatches}

NextRack ==
    \/ ReadLog({Entry("game-player", 1) @@ ("player-id" :> 0) @@ ("username" :> "alice")})
    \/ ReadConnect({ConnectLine(0, "alice")})
    \/ ReadCommandToClient(RackBatchLines)
    \/ EndOfFile
    \/ FinalBlankLine
    \/ EndOfStream

SpecRack == Init /\ [][NextRack]_vars

(***************************************************************************)
(* SpecHistory: files in which alice is made player 0 of game 1, alice     *)
(* connects as client 0 and bob as client 1, client 0 joins game 1 and     *)
(* client 1 watches it, and history messages are sent, one at a time or as *)
(* a list, to the player, to the watcher or to both.                       *)
(***************************************************************************)
SetGameWatcherClientId(game_id, client_id) == <<"SetGameWatcherClientId", game_id, client_id>>
AddGameHistoryMessage(message) == <<"AddGameHistoryMessage">> \o message
AddGameHistoryMessages(messages) == <<"AddGameHistoryMessages", messages>>

MessageTurnBegan(player_id) == <<"TurnBegan", PyInt(player_id)>>
MessageDrewPositionTile(player_id, x, y) == <<"DrewPositionTile", PyInt(player_id), x, y>>
MessageDrewTile(player_id, x, y) == <<"DrewTile", PyInt(player_id), x, y>>

HistoryBatchLines ==
    {CommandToClientLine(<<0>>, <<SetGamePlayerJoin(1, 0, 0), SetGameWatcherClientId(1, 1)>>),
     CommandToClientLine(<<0, 1>>, <<AddGameHistoryMessage(MessageTurnBegan(0))>>),
     CommandToClientLine(<<0>>, <<AddGameHistoryMessage(MessageDrewPositionTile(0, 0, 0))>>),
     CommandToClientLine(<<0>>, <<AddGameHistoryMessages(
                                      <<MessageDrewPositionTile(0, 0, 0), MessageDrewTile(0, 1, 0)>>)>>),
     CommandToClientLine(<<1>>, <<AddGameHistoryMessages(<<MessageDrewTile(0, 1, 0)>>)>>)}

NextHistory ==
    \/ ReadLog({Entry("game-player", 1) @@ ("player-id" :> 0) @@ ("username" :> "alice")})
    \/ ReadConnect({ConnectLine(0, "alice"), ConnectLine(1, "bob")})
    \/ ReadCommandToClient(HistoryBatchLines)
    \/ EndOfFile
    \/ FinalBlankLine
    \/ EndOfStream

SpecHistory == Init /\ [][NextHistory]_vars

(***************************************************************************)
(* SpecReorder: files of batches to client 0, every batch of at most       *)
(* MaxBatchLen commands, each a SetGameBoardCell, a SetGamePlayerJoin, a   *)
(* SetGamePlayerLeave or a RemoveTile.                                     *)
(***************************************************************************)
SetGamePlayerLeave(game_id, player_id, client_id) ==
    <<"SetGamePlayerLeave", game_id, player_id, client_id>>
ReorderCommandSet ==
    {SetGameBoardCell(0, 0, "NothingYet"), SetGamePlayerJoin(1, 0, 0), SetGamePlayerLeave(1, 0, 0),
     RemoveTile(0)}
ReorderBatches == UNION {[1..n -> ReorderCommandSet] : n \in 1..MaxBatchLen}
ReorderBatchLines == {CommandToClientLine(<<0>>, commands) : commands \in ReorderBatches}

NextReorder ==
    \/ ReadCommandToClient(ReorderBatchLines)
    \/ EndOfFile
    \/ FinalBlankLine
    \/ EndOfStream

SpecReorder == Init /\ [][NextReorder]_vars

(***************************************************************************)
(* The historical change table and the translator of command codes.  A     *)
(* dict keyed by timestamps or by enum names is a function, a dict of old  *)
(* index to new index a function on 0..n-1, a list of names a sequence     *)
(* (entry i of the source is entry i+1 here).                              *)
(***************************************************************************)
SnapshotKeyCommandsToClient == 1417176502
SnapshotKeyErrors == 1409233190

\* the lists of Enums._lookups_changes, lines 26-49 and 52-56
SnapshotCommandsToClient == <<
    "FatalError", "SetClientId", "SetClientIdToData", "SetGameState", "SetGameBoardCell",
    "SetGameBoard", "SetScoreSheetCell", "SetScoreSheet", "SetGamePlayerUsername",
    "SetGamePlayerClientId", "SetGameWatcherClientId", "ReturnWatcherToLobby",
    "AddGameHistoryMessage", "AddGameHistoryMessages", "SetTurn", "SetGameAction", "SetTile",
    "SetTileGameBoardType", "RemoveTile", "AddGlobalChatMessage", "AddGameChatMessage",
    "DestroyGame" >>
SnapshotErrors == <<"NotUsingLatestVersion", "InvalidUsername", "UsernameAlreadyInUse">>

\* Enums._lookups_changes
Enums_lookups_changes ==
    (SnapshotKeyCommandsToClient :> ("CommandsToClient" :> SnapshotCommandsToClient))
    @@ (SnapshotKeyErrors :> ("Errors" :> SnapshotErrors))

\* The table after one more change of the error numbering has been recorded
\* under a later key: two snapshots then change the same family.
LaterSnapshotKey == SnapshotKeyCommandsToClient + 1000
Enums_lookups_changes_extended ==
    (LaterSnapshotKey :>
        ("Errors" :> <<"InvalidUsername", "UsernameAlreadyInUse", "NotUsingLatestVersion">>))
    @@ Enums_lookups_changes
LookupsChangesTables == {Enums_lookups_changes, Enums_lookups_changes_extended}

\* The members of enums.CommandsToClient and of enums.Errors, in definition
\* order.  Module enums is not part of the sources: the orders below are the
\* ones the model lets it have.  A member's value is its place in the order,
\* counted from 0.
SetGamePlayerMembers ==
    <<"SetGamePlayerJoin", "SetGamePlayerRejoin", "SetGamePlayerLeave", "SetGamePlayerJoinMissing">>
CommandsToClientMembers(k) ==
    SubSeq(SnapshotCommandsToClient, 1, k)
    \o (IF k <= 8 THEN SetGamePlayerMembers ELSE << >>)
    \o SelectSeq(SubSeq(SnapshotCommandsToClient, k + 1, Len(SnapshotCommandsToClient)),
                 LAMBDA name : name \notin {"SetGamePlayerUsername", "SetGamePlayerClientId"})
    \o (IF k > 8 THEN SetGamePlayerMembers ELSE << >>)
CommandsToClientMemberOrders == {CommandsToClientMembers(k) : k \in {0, 8, 22}}
ErrorsMemberOrders ==
    {SnapshotErrors,
     <<"UsernameAlreadyInUse", "NotUsingLatestVersion", "InvalidUsername">>,
     <<"GenericError", "InvalidUsername", "NotUsingLatestVersion", "UsernameAlreadyInUse">>}

\* Enums.lookups, lines 19-22
Enums_lookups(commands_to_client_members, errors_members) ==
    ("CommandsToClient" :>
        commands_to_client_members \o <<"SetGamePlayerUsername", "SetGamePlayerClientId">>)
    @@ ("Errors" :> errors_members)
LookupsSet ==
    {Enums_lookups(c, e) : c \in CommandsToClientMemberOrders, e \in ErrorsMemberOrders}

\* {entry: index for index, entry in enumerate(names)}: the last index wins
EntryToNewIndex(names) ==
    [entry \in {names[i] : i \in DOMAIN names} |->
        Max({i \in DOMAIN names : names[i] = entry}) - 1]

\* Enums.initialize, lines 60-68: Enums._translations
Enums_initialize(lookups, lookups_changes) ==
    [timestamp \in DOMAIN lookups_changes |->
        [enum_name \in DOMAIN lookups_changes[timestamp] |->
            LET entries == lookups_changes[timestamp][enum_name]
                entry_to_new_index == EntryToNewIndex(lookups[enum_name])
            IN  [index \in 0..(Len(entries) - 1) |-> entry_to_new_index[entries[index + 1]]]]]

\* sorted(keys, reverse=True)
RECURSIVE SortedReverse(_)
SortedReverse(keys) ==
    IF keys = {} THEN << >> ELSE <<Max(keys)>> \o SortedReverse(keys \ {Max(keys)})

\* sorted(keys)
RECURSIVE Sorted(_)
Sorted(keys) ==
    IF keys = {} THEN << >> ELSE <<Min(keys)>> \o Sorted(keys \ {Min(keys)})

\* the loop of Enums.get_translations over the keys from place i on;
\* dict.update lets the later snapshot of the loop replace the family
RECURSIVE GetTranslationsLoop(_, _, _, _, _)
GetTranslationsLoop(translations, timestamp, keys, i, translations_for_timestamp) ==
    IF i > Len(keys) THEN translations_for_timestamp
    ELSE GetTranslationsLoop(translations, timestamp, keys, i + 1,
             IF timestamp <= keys[i]
             THEN translations[keys[i]] @@ translations_for_timestamp
             ELSE translations_for_timestamp)

\* faulty variant: every snapshot applies, whatever the timestamp
Enums_get_translations_every_snapshot(translations, timestamp) ==
    GetTranslationsLoop(translations, SnapshotKeyErrors, SortedReverse(DOMAIN translations), 1, << >>)

\* faulty variant: the snapshots are applied oldest first
Enums_get_translations_oldest_first(translations, timestamp) ==
    GetTranslationsLoop(translations, timestamp, Sorted(DOMAIN translations), 1, << >>)

\* Enums.get_translations, lines 70-77
Enums_get_translations(translations, timestamp) ==
    GetTranslationsLoop(translations, timestamp, SortedReverse(DOMAIN translations), 1, << >>)

\* translations.get(enum_name): None is the dict without keys here, both
\* are false in the tests of translate
TranslationsGet(translations, enum_name) ==
    IF enum_name \in DOMAIN translations THEN translations[enum_name] ELSE << >>

\* CommandsToClientTranslator.__init__, lines 86-90
NewCommandsToClientTranslator(translations, lookups) ==
    [commands_to_client |-> TranslationsGet(translations, "CommandsToClient"),
     errors |-> TranslationsGet(translations, "Errors"),
     fatal_error |-> EntryToNewIndex(lookups["CommandsToClient"])["FatalError"]]

\* CommandsToClientTranslator.translate, lines 92-100, on a batch of
\* commands <<code, argument>>: the batch after the call, and whether a
\* KeyError left it
CommandsToClientTranslator_translate(translator, commands) ==
    LET codes_known ==
            \A i \in DOMAIN commands : commands[i][1] \in DOMAIN translator.commands_to_client
        commands1 ==
            IF DOMAIN translator.commands_to_client # {} /\ codes_known
            THEN [i \in DOMAIN commands |->
                     [commands[i] EXCEPT ![1] = translator.commands_to_client[commands[i][1]]]]
            ELSE commands
        raised1 == DOMAIN translator.commands_to_client # {} /\ ~codes_known
        errors_known ==
            \A i \in DOMAIN commands1 :
                commands1[i][1] = translator.fatal_error
                    => commands1[i][2] \in DOMAIN translator.errors
        commands2 ==
            IF DOMAIN translator.errors # {} /\ errors_known
            THEN [i \in DOMAIN commands1 |->
                     IF commands1[i][1] = translator.fatal_error
                     THEN [commands1[i] EXCEPT ![2] = translator.errors[commands1[i][2]]]
                     ELSE commands1[i]]
            ELSE commands1
        raised2 == DOMAIN translator.errors # {} /\ ~errors_known
    IN  [raised |-> raised1 \/ (~raised1 /\ raised2),
         commands |-> IF raised1 THEN commands ELSE commands2]

(***************************************************************************)
(* SpecTranslate: a LogParser is made for a log of some timestamp, and its *)
(* translator is given batches of commands as they are on the wire.  Here  *)
(* log_parser holds what the constructor is given and the translator it    *)
(* makes, event the batch given to translate and the batch after the call. *)
(***************************************************************************)
LogTimestamps ==
    {SnapshotKeyErrors - 1, SnapshotKeyErrors, SnapshotKeyErrors + 1,
     SnapshotKeyCommandsToClient, SnapshotKeyCommandsToClient + 1,
     LaterSnapshotKey, LaterSnapshotKey + 1}
WireCommands == {<<0, 0>>, <<0, 2>>, <<4, 1>>, <<8, 0>>, <<22, 0>>}
WireBatches == UNION {[1..n -> WireCommands] : n \in 1..MaxBatchLen}

InitTranslate ==
    /\ pc = "new"
    /\ \E lookups \in LookupsSet, lookups_changes \in LookupsChangesTables,
          log_timestamp \in LogTimestamps :
          log_parser = [lookups |-> lookups,
                        lookups_changes |-> lookups_changes,
                        log_timestamp |-> log_timestamp,
                        enums_translations |-> << >>,
                        commands_to_client_translator |-> << >>]
    /\ event = [commands |-> << >>, translated |-> << >>, raised |-> FALSE]
    /\ log_processor = NewLogProcessor
    /\ emitted = << >>

\* LogParser.__init__, lines 148-149
NewLogParser ==
    /\ pc = "new"
    /\ pc' = "translate"
    /\ LET enums_translations ==
               Enums_get_translations(
                   Enums_initialize(log_parser.lookups, log_parser.lookups_changes),
                   log_parser.log_timestamp)
       IN  log_parser' =
               [log_parser EXCEPT
                   !.enums_translations = enums_translations,
                   !.commands_to_client_translator =
                       NewCommandsToClientTranslator(enums_translations, log_parser.lookups)]
    /\ UNCHANGED <<event, log_processor, emitted>>

\* the call of line 208 on one batch
Translate ==
    /\ pc = "translate"
    /\ \E commands \in WireBatches :
          LET r == CommandsToClientTranslator_translate(
                       log_parser.commands_to_client_translator, commands)
          IN  event' = [commands |-> commands, translated |-> r.commands, raised |-> r.raised]
    /\ pc' = "translated"
    /\ UNCHANGED <<log_parser, log_processor, emitted>>

NextTranslate ==
    \/ NewLogParser
    \/ Translate

SpecTranslate == InitTranslate /\ [][NextTranslate]_vars

(***************************************************************************)
(* SpecMalformed: files of connect lines, 'game' entries, blank lines,     *)
(* lines whose payload ujson.decode rejects, and the lines                 *)
(* "<n> -> <id> disconnect" that are printed after an error.               *)
(***************************************************************************)
InvalidCommandToServerLine == [shape |-> "command_to_server", decodes_to |-> "invalid_json"]
MalformedLines ==
    {InvalidCommandToClientLine("invalid_json"), InvalidCommandToServerLine, InvalidLogLine}
MalformedConnectLines == {ConnectLine(0, "alice"), ConnectLine(1, "bob")}
MalformedGameEntries == {Entry("game", 0) @@ ("state" :> "InProgress")}

ReadMalformed ==
    \E line \in MalformedLines : line.decodes_to = "invalid_json" /\ ReadLine(line)
ReadDisconnectAfterError ==
    \E client_id \in ClientIds :
        LET line == DisconnectAfterErrorLine(client_id)
        IN  line.shape = "disconnect_after_error" /\ ReadLine(line)

NextMalformed ==
    \/ ReadConnect(MalformedConnectLines)
    \/ ReadLog(MalformedGameEntries)
    \/ ReadMalformed
    \/ ReadDisconnectAfterError
    \/ ReadBlankLine
    \/ EndOfFile
    \/ FinalBlankLine
    \/ EndOfStream

SpecMalformed == Init /\ [][NextMalformed]_vars

(***************************************************************************)
(* SpecUnterminated: files of connect lines, 'game' entries, batches to a  *)
(* client and blank lines, whose last line may lack the final '\n'.        *)
(***************************************************************************)
UnterminatedLines ==
    {ConnectLine(0, "alice"), ConnectLine(1, "alice"), DisconnectLine(0),
     LogLine(Entry("game", 0) @@ ("state" :> "InProgress")),
     CommandToClientLine(<<0>>, <<SetGamePlayerJoin(0, 0, 0)>>),
     CommandToServerLine(0, DoGameAction(1)), GameExpiredLine(0), OtherLine}

ReadLastLineWithoutNewline ==
    \E line \in UnterminatedLines : line.shape # "blank" /\ ReadUnterminatedLine(line)

NextUnterminated ==
    \/ ReadConnect({ConnectLine(0, "alice")})
    \/ ReadLog({Entry("game", 0) @@ ("state" :> "InProgress")})
    \/ ReadCommandToClient({CommandToClientLine(<<0>>, <<SetGamePlayerJoin(0, 0, 0)>>)})
    \/ ReadBlankLine
    \/ ReadLastLineWithoutNewline
    \/ EndOfFile
    \/ FinalBlankLine
    \/ EndOfStream

SpecUnterminated == Init /\ [][NextUnterminated]_vars

(***************************************************************************)
(* Game._get_initial_tile_bag.  A list is a sequence (entry i of the       *)
(* source is entry i+1 here), a tile the tuple <<x, y>>.                   *)
(***************************************************************************)
\* Game.tile_bag_tweaks, lines 617-628: (log_timestamp, internal_game_id)
\* to the list of [index, tile]
Game_tile_bag_tweaks ==
    (<<1414827614, 43>> :> << <<34, <<1, 5>>>> >>)
    @@ (<<1415355783, 106>> :> << <<68, <<11, 1>>>> >>)
    @@ (<<1421578193, 3366>> :> << <<80, <<9, 6>>>> >>)
    @@ (<<1427270069, 3903>> :> << <<53, <<0, 8>>>> >>)
    @@ (<<1430041771, 1330>> :> << <<63, <<0, 8>>>> >>)
    @@ (<<1432033655, 1965>> :> << <<91, <<5, 5>>>> >>)
    @@ (<<1433241253, 1336>> :> << <<69, <<7, 5>>>> >>)
    @@ (<<1433837429, 1110>> :> << <<73, <<7, 1>>>> >>)
    @@ (<<1435226336, 3165>> :> << <<88, <<2, 7>>>>, <<89, <<11, 3>>>> >>)
    @@ (<<1435226336, 5690>> :> << <<101, <<10, 7>>>> >>)

\* The generator of module random is in one of NumRandomStates states.
NumRandomStates == 3
RandomStates == 0..(NumRandomStates - 1)

\* random.seed(str(log_timestamp) + '-' + str(internal_game_id)): the state
\* of the generator after the call is a function of the string alone
RandomSeed_keeping_state(state, log_timestamp, internal_game_id) == state
RandomSeed(state, log_timestamp, internal_game_id) ==
    (log_timestamp + internal_game_id) % NumRandomStates

\* random.shuffle(list): a permutation of the list that the state of the
\* generator and the list determine, and the state after it
RandomShuffle(state, list) ==
    LET n == Len(list)
        k == IF n = 0 THEN 0 ELSE (state + 1) % n
    IN  [list |-> [i \in 1..n |-> list[((i - 1 + k) % n) + 1]],
         state |-> (state + 1) % NumRandomStates]

\* the tiles of a set in the order list(set) and tuple(set) give them:
\* the same set gives the same order
SetToList(tiles) ==
    SelectSeq([k \in 1..(BoardWidth * BoardHeight) |->
                  <<(k - 1) \div BoardHeight, (k - 1) % BoardHeight>>],
              LAMBDA t : t \in tiles)

\* random.sample(tiles, 1)[0]
RandomSample(state, tiles) ==
    [tile |-> SetToList(tiles)[(state % Cardinality(tiles)) + 1],
     state |-> (state + 1) % NumRandomStates]

\* lines 762-769: the tiles a history shows drawn or replaced, turn by
\* turn, from message i on
RECURSIVE TurnByTurnTiles(_, _, _, _)
TurnByTurnTiles(game_history, i, turn_by_turn, turn_tiles) ==
    IF i > Len(game_history) THEN Append(turn_by_turn, turn_tiles)
    ELSE LET message == game_history[i]
         IN  IF message[1] \in DrewOrReplacedTileMessageIds
             THEN TurnByTurnTiles(game_history, i + 1, turn_by_turn,
                                  Append(turn_tiles, <<message[3], message[4]>>))
             ELSE IF message[1] = GameHistoryMessagesTurnBegan
             THEN TurnByTurnTiles(game_history, i + 1, Append(turn_by_turn, turn_tiles), << >>)
             ELSE TurnByTurnTiles(game_history, i + 1, turn_by_turn, turn_tiles)

\* faulty variant: the lists of a turn are left in player order
SortedByLenDescending_unsorted(lists, n) == lists

\* sorted(lists, key=lambda x: -len(x)): longest first, lists of one length
\* in the order they had; n is the length taken next
RECURSIVE SortedByLenDescending(_, _)
SortedByLenDescending(lists, n) ==
    IF n = 0 THEN << >>
    ELSE SelectSeq(lists, LAMBDA x : Len(x) = n) \o SortedByLenDescending(lists, n - 1)

\* lines 804-807: the tiles of a list not yet included are included
RECURSIVE IncludeTiles(_, _, _)
IncludeTiles(tiles, i, tile_bag) ==
    IF i > Len(tiles) THEN tile_bag
    ELSE IncludeTiles(tiles, i + 1,
             IF tiles[i] \in {tile_bag[j] : j \in DOMAIN tile_bag}
             THEN tile_bag ELSE Append(tile_bag, tiles[i]))

RECURSIVE Flatten(_)
Flatten(lists) == IF lists = << >> THEN << >> ELSE Head(lists) \o Flatten(Tail(lists))

\* lines 784-807: the loop over itertools.zip_longest, from turn t on
RECURSIVE TileBagOfTurns(_, _, _)
TileBagOfTurns(player_id_to_turn_by_turn, t, tile_bag) ==
    LET longest == Max({0} \cup {Len(player_id_to_turn_by_turn[p]) :
                                    p \in DOMAIN player_id_to_turn_by_turn})
    IN  IF t > longest THEN tile_bag
        ELSE LET of_turn ==
                     [p \in DOMAIN player_id_to_turn_by_turn |->
                         IF t <= Len(player_id_to_turn_by_turn[p])
                         THEN player_id_to_turn_by_turn[p][t] ELSE << >>]
                 players_tiles_by_turn ==
                     SortedByLenDescending(SelectSeq(of_turn, LAMBDA x : x # << >>),
                                           Max({Len(of_turn[p]) : p \in DOMAIN of_turn}))
             IN  TileBagOfTurns(player_id_to_turn_by_turn, t + 1,
                                IncludeTiles(Flatten(players_tiles_by_turn), 1, tile_bag))

\* lines 817-827: the loop over tile_bag_tweaks, from tweak i on; st holds
\* tile_bag, remaining_tiles, the state of the generator, and whether
\* remaining_tiles.remove raised KeyError
RECURSIVE TileBagTweaksLoop(_, _, _)
TileBagTweaksLoop(tile_bag_tweaks, i, st) ==
    IF i > Len(tile_bag_tweaks) \/ st.raised THEN st
    ELSE LET index == tile_bag_tweaks[i][1]
             tile == tile_bag_tweaks[i][2]
         IN  IF Len(st.tile_bag) >= index
             THEN LET sample == IF tile = NoTile
                                THEN RandomSample(st.random_state, st.remaining_tiles)
                                ELSE [tile |-> tile, state |-> st.random_state]
                  IN  TileBagTweaksLoop(tile_bag_tweaks, i + 1,
                          [tile_bag |-> SubSeq(st.tile_bag, 1, index) \o <<sample.tile>>
                                        \o SubSeq(st.tile_bag, index + 1, Len(st.tile_bag)),
                           remaining_tiles |-> st.remaining_tiles \ {sample.tile},
                           random_state |-> sample.state,
                           raised |-> sample.tile \notin st.remaining_tiles])
             ELSE TileBagTweaksLoop(tile_bag_tweaks, i + 1, st)

Reversed(list) == [i \in 1..Len(list) |-> list[Len(list) + 1 - i]]

\* Game._get_initial_tile_bag, lines 753-835, called while the generator of
\* module random is in random_state: the list returned, whether the call
\* raised instead, and the state of the generator after the call
Game_get_initial_tile_bag(game, random_state) ==
    IF ~game.tile_bag.is_none /\ game.tile_bag.list # << >>
    THEN [tile_bag |-> game.tile_bag.list, raised |-> FALSE, random_state |-> random_state]
    ELSE LET usernames == OD_Values(game.player_id_to_username)
             player_id_to_turn_by_turn ==
                 [p \in DOMAIN usernames |->
                     TurnByTurnTiles(game.username_to_game_history[usernames[p]],
                                     1, << >>, << >>)]
             tile_bag == TileBagOfTurns(player_id_to_turn_by_turn, 1, << >>)
             included_tiles == {tile_bag[j] : j \in DOMAIN tile_bag}
             remaining_tiles == Coordinates \ included_tiles
             key == <<game.log_timestamp, game.internal_game_id>>
             tile_bag_tweaks ==
                 IF key \in DOMAIN Game_tile_bag_tweaks THEN Game_tile_bag_tweaks[key] ELSE << >>
             tweaked == TileBagTweaksLoop(tile_bag_tweaks, 1,
                            [tile_bag |-> tile_bag, remaining_tiles |-> remaining_tiles,
                             random_state |-> random_state, raised |-> FALSE])
             seeded == RandomSeed(tweaked.random_state, game.log_timestamp, game.internal_game_id)
             shuffled == RandomShuffle(seeded, SetToList(tweaked.remaining_tiles))
         IN  IF tweaked.raised
             THEN [tile_bag |-> << >>, raised |-> TRUE, random_state |-> tweaked.random_state]
             ELSE [tile_bag |-> Reversed(tweaked.tile_bag \o shuffled.list),
                   raised |-> FALSE, random_state |-> shuffled.state]

(***************************************************************************)
(* SpecTileBag: a game LogProcessor.go has yielded, with the histories of  *)
(* its two players, is given to _get_initial_tile_bag twice; other games   *)
(* use the generator of module random in between.  Here emitted holds the  *)
(* game, event the state of the generator and what the calls returned.     *)
(***************************************************************************)
MaxTurns == 4
MaxDrawsPerTurn == 6

\* the k-th coordinate of the board, column by column
TileAt(k) == <<k \div BoardHeight, k % BoardHeight>>
MessageReplacedDeadTile(player_id, x, y) == <<"ReplacedDeadTile", PyInt(player_id), x, y>>
\* the n tiles from the k-th on, as DrewTile messages of player_id, the
\* last of them a ReplacedDeadTile message
Draws(player_id, k, n) ==
    [i \in 1..n |->
        IF i = n /\ n > 1
        THEN MessageReplacedDeadTile(player_id, TileAt(k + i - 1)[1], TileAt(k + i - 1)[2])
        ELSE MessageDrewTile(player_id, TileAt(k + i - 1)[1], TileAt(k + i - 1)[2])]

\* The history of player_id in a game of two players: the position tiles
\* of both (every player is told them, by username), the first draws_per_turn
\* tiles it drew, and, for each of the turns, the TurnBegan message and the
\* tiles the player of the turn drew.  The tiles are the coordinates from
\* the start-th on.
RECURSIVE HistoryOfTurns(_, _, _, _, _)
HistoryOfTurns(player_id, start, draws_per_turn, t, turns) ==
    IF t > turns THEN << >>
    ELSE <<MessageTurnBegan(t % 2)>>
         \o (IF t % 2 = player_id
             THEN Draws(player_id, start + (1 + t) * draws_per_turn, draws_per_turn)
             ELSE << >>)
         \o HistoryOfTurns(player_id, start, draws_per_turn, t + 1, turns)
GameHistory(player_id, start, draws_per_turn, turns) ==
    << <<"DrewPositionTile", PyStr("alice"), TileAt(start - 2)[1], TileAt(start - 2)[2]>>,
       <<"DrewPositionTile", PyStr("bob"), TileAt(start - 1)[1], TileAt(start - 1)[2]>> >>
    \o Draws(player_id, start + player_id * draws_per_turn, draws_per_turn)
    \o HistoryOfTurns(player_id, start, draws_per_turn, 1, turns)

TileBagGameKeys == {<<LogTimestamp, 1>>, <<1414827614, 43>>, <<1435226336, 3165>>}
TileBagStarts == {2, 20}
\* the tile_bag of the game: no 'tile-bag' field was logged, or one with
\* all the tiles, or an empty one
LoggedTileBags ==
    <<NoTileBag, LoggedTileBag([k \in 1..(BoardWidth * BoardHeight) |-> TileAt(k - 1)]),
      LoggedTileBag(<< >>)>>

\* with extra, bob's history shows one more tile drawn before the first turn
\* than alice's
TileBagGame(key, start, draws_per_turn, turns, logged, extra) ==
    [NewGame(key[1], 1, key[2], 1) EXCEPT
        !.tile_bag = logged,
        !.player_id_to_username = OD_Put(OD_Put(EmptyDict, 0, "alice"), 1, "bob"),
        !.username_to_player_id = ("alice" :> 0) @@ ("bob" :> 1),
        !.player_join_order = <<"alice", "bob">>,
        !.username_to_game_history =
            ("alice" :> GameHistory(0, start, draws_per_turn, turns))
            @@ ("bob" :> (IF extra
                          THEN <<MessageDrewTile(1, BoardWidth - 1, BoardHeight - 1)>>
                          ELSE << >>)
                         \o GameHistory(1, start, draws_per_turn, turns))]

InitTileBag ==
    /\ pc = "yielded"
    /\ log_parser = [line_number |-> 0, handled_line_type |-> None, connection_made_count |-> 0,
                     raised |-> FALSE]
    /\ log_processor = NewLogProcessor
    /\ \E key \in TileBagGameKeys, start \in TileBagStarts, draws_per_turn \in 1..MaxDrawsPerTurn,
          turns \in 0..MaxTurns, logged \in DOMAIN LoggedTileBags, extra \in BOOLEAN :
          emitted = <<TileBagGame(key, start, draws_per_turn, turns, LoggedTileBags[logged],
                                  extra)>>
    /\ \E random_state \in RandomStates :
          event = [random_state |-> random_state, returned |-> << >>]

\* Game.make_server_game, line 670
GetInitialTileBag ==
    /\ pc = "yielded"
    /\ Len(event.returned) < 2
    /\ LET r == Game_get_initial_tile_bag(emitted[1], event.random_state)
       IN  event' = [random_state |-> r.random_state,
                     returned |-> Append(event.returned,
                                         [tile_bag |-> r.tile_bag, raised |-> r.raised])]
    /\ UNCHANGED <<pc, log_parser, log_processor, emitted>>

\* another game is given to make_server_game: the generator is seeded with
\* that game's string and used
OtherGameProcessed ==
    /\ pc = "yielded"
    /\ Len(event.returned) = 1
    /\ \E random_state \in RandomStates \ {event.random_state} :
          event' = [event EXCEPT !.random_state = random_state]
    /\ UNCHANGED <<pc, log_parser, log_processor, emitted>>

NextTileBag ==
    \/ GetInitialTileBag
    \/ OtherGameProcessed

SpecTileBag == InitTileBag /\ [][NextTileBag]_vars

(***************************************************************************)
(* Game.make_server_game.  The simulation (module server) is seen through *)
(* the calls made on it, in order.                                         *)
(***************************************************************************)
\* the names of enums.GameModes
GameModesMembers == {"Singles", "Teams"}

\* Client.__init__, lines 892-896
NewClient(player_id, username) ==
    [client_id |-> player_id + 1, username |-> username, game_id |-> None, player_id |-> None]

\* sorted(d.items()) of a dict with integer keys
SortedItems(d) ==
    LET keys == Sorted(OD_Keys(d))
    IN  [i \in DOMAIN keys |-> [k |-> keys[i], v |-> OD_Get(d, keys[i])]]

\* self._server_game_player_id_to_client[player_id]: IndexError when the list
\* has no such place
ClientIndexError(clients, player_id) == player_id + 1 \notin DOMAIN clients

\* lines 676-678: the loop over self.player_join_order from place i on;
\* st holds the calls made so far and whether an exception left the loop
RECURSIVE JoinGameLoop(_, _, _, _)
JoinGameLoop(game, clients, i, st) ==
    IF i > Len(game.player_join_order) \/ st.raised THEN st
    ELSE LET username == game.player_join_order[i]
             player_id == game.username_to_player_id[username]
         IN  IF ClientIndexError(clients, player_id)
             THEN [st EXCEPT !.raised = TRUE]
             ELSE JoinGameLoop(game, clients, i + 1,
                      [st EXCEPT !.calls = Append(@,
                          [call |-> "join_game", client |-> clients[player_id + 1]])])

\* faulty variant: the actions are replayed last to first
RECURSIVE DoGameActionLoop_backwards(_, _, _, _)
DoGameActionLoop_backwards(game, clients, i, st) ==
    IF i > Len(game.actions) \/ st.raised THEN st
    ELSE LET player_id_and_action == game.actions[Len(game.actions) + 1 - i]
             player_id == player_id_and_action[1]
             action == player_id_and_action[2]
         IN  IF ClientIndexError(clients, player_id)
             THEN [st EXCEPT !.raised = TRUE]
             ELSE DoGameActionLoop_backwards(game, clients, i + 1,
                      [st EXCEPT !.calls = Append(@,
                          [call |-> "do_game_action", client |-> clients[player_id + 1],
                           game_action_id |-> Head(action), data |-> Tail(action)])])

\* lines 680-685: the loop over self.actions from place i on
RECURSIVE DoGameActionLoop(_, _, _, _)
DoGameActionLoop(game, clients, i, st) ==
    IF i > Len(game.actions) \/ st.raised THEN st
    ELSE LET player_id_and_action == game.actions[i]
             player_id == player_id_and_action[1]
             action == player_id_and_action[2]
         IN  IF ClientIndexError(clients, player_id)
             THEN [st EXCEPT !.raised = TRUE]
             ELSE DoGameActionLoop(game, clients, i + 1,
                      [st EXCEPT !.calls = Append(@,
                          [call |-> "do_game_action", client |-> clients[player_id + 1],
                           game_action_id |-> Head(action), data |-> Tail(action)])])

\* Game.make_server_game, lines 669-685, called while the generator of
\* module random is in random_state: the calls made on the simulation,
\* whether an exception left the method, and the state of the generator
Game_make_server_game(game, random_state) ==
    LET bag == Game_get_initial_tile_bag(game, random_state)
        items == SortedItems(game.player_id_to_username)
        clients == [i \in DOMAIN items |-> NewClient(items[i].k, items[i].v)]
        made == [calls |-> << [call |-> "Game", game_id |-> game.game_id,
                               internal_game_id |-> game.internal_game_id,
                               mode |-> game.mode, max_players |-> game.max_players,
                               tile_bag |-> bag.tile_bag] >>,
                 raised |-> FALSE]
    IN  IF bag.raised \/ game.mode \notin GameModesMembers
        THEN [calls |-> << >>, raised |-> TRUE, random_state |-> bag.random_state]
        ELSE LET joined == JoinGameLoop(game, clients, 1, made)
                 replayed == DoGameActionLoop(game, clients, 1, joined)
             IN  [calls |-> replayed.calls, raised |-> replayed.raised,
                  random_state |-> bag.random_state]

(***************************************************************************)
(* SpecReplay: a game is made by the structured entries of a log, at most  *)
(* MaxEntries of them, and the actions of its players; LogProcessor.go     *)
(* yields it and make_server_game is called on it.  Here emitted holds the *)
(* game, log_parser the entries that made it, event the state of the       *)
(* generator of module random and what make_server_game did.               *)
(***************************************************************************)
MaxEntries == 3

ReplayEntries ==
    GamePlayerEntries(1)
    \cup {Entry("game", 1) @@ ("mode" :> "Singles"),
          Entry("game", 1) @@ ("mode" :> "Singles") @@ ("tile-bag" :> << >>),
          Entry("game", 1) @@ ("mode" :> "Singles") @@ ("tile-bag" :> <<<<0, 0>>, <<3, 1>>>>)}

RECURSIVE GameOfEntries(_, _, _)
GameOfEntries(lp, entries, i) ==
    IF i > Len(entries) THEN OD_Get(lp.game_id_to_game, 1)
    ELSE GameOfEntries(LogProcessor_handle_log(lp, entries[i]), entries, i + 1)

\* the actions a game can hold: each of a player id the game knows
ReplayActions(game) ==
    LET player_ids == {game.username_to_player_id[u] : u \in DOMAIN game.username_to_player_id}
        one == {<<p, <<a>>>> : p \in player_ids, a \in {1, 2}}
    IN  {<< >>} \cup {<<x>> : x \in one} \cup {<<x, y>> : x \in one, y \in one}

InitReplay ==
    /\ pc = "yielded"
    /\ log_processor = NewLogProcessor
    /\ \E n \in 1..MaxEntries : \E entries \in [1..n -> ReplayEntries] :
          LET game == GameOfEntries(NewLogProcessor, entries, 1)
          IN  /\ log_parser = [entries |-> entries]
              /\ \E actions \in ReplayActions(game) :
                     emitted = <<[game EXCEPT !.actions = actions]>>
    /\ \E random_state \in RandomStates :
          event = [random_state |-> random_state, calls |-> << >>, raised |-> FALSE]

\* Game.make_server_game on the game
MakeServerGame ==
    /\ pc = "yielded"
    /\ pc' = "made"
    /\ LET r == Game_make_server_game(emitted[1], event.random_state)
       IN  event' = [random_state |-> r.random_state, calls |-> r.calls, raised |-> r.raised]
    /\ UNCHANGED <<log_parser, log_processor, emitted>>

NextReplay ==
    \/ MakeServerGame

SpecReplay == InitReplay /\ [][NextReplay]_vars

(***************************************************************************)
(* Game.compare_with_server_game and Game._sync_compare, for a game that   *)
(* is not verbose.  The simulation is read through the fields the method   *)
(* reads: game_board.x_to_y_to_board_type, score_sheet.player_data,        *)
(* score_sheet.chain_size, score_sheet.username_to_player_id, tile_racks   *)
(* and history_messages.  A line of sync_log is <<"diff", name>> for       *)
(* name + ' diff!', <<"diff for player_id", name, p>> for                  *)
(* name + ' diff for player_id p!' and Str(v) for str(v); str gives        *)
(* different strings for different values of the lists compared here.      *)
(***************************************************************************)
Str(v) == <<"str", v>>

\* f[:n] of a list kept as a function on 0..(len - 1)
Slice(f, n) ==
    LET len == Cardinality(DOMAIN f)
    IN  [i \in 1..(IF n < len THEN n ELSE len) |-> f[i - 1]]

\* faulty variant: the rows of the simulation with all their columns
VisibleColumns_every_column(player_data) == player_data

\* [x[:8] for x in self.server_game.score_sheet.player_data], line 697
VisibleColumns(player_data) ==
    [i \in DOMAIN player_data |->
        SubSeq(player_data[i], 1, IF Len(player_data[i]) < 8 THEN Len(player_data[i]) ELSE 8)]

\* line 704: tile_data[0] if tile_data else None, rack by rack
ServerTileRacks(racks) ==
    [r \in DOMAIN racks |->
        [i \in DOMAIN racks[r] |-> IF racks[r][i] # << >> THEN racks[r][i][1] ELSE NoTile]]

\* lines 743-747: the loop over zip(range(len(first)), first, second) from
\* place i on
RECURSIVE SyncCompareRacksLoop(_, _, _, _, _)
SyncCompareRacksLoop(name, first, second, i, sync_log) ==
    IF i > Len(first) \/ i > Len(second) THEN sync_log
    ELSE SyncCompareRacksLoop(name, first, second, i + 1,
             IF first[i] # second[i]
             THEN sync_log \o << <<"diff for player_id", name, i - 1>>,
                                 Str(first[i]), Str(second[i]) >>
             ELSE sync_log)

\* faulty variant: a difference is logged and the result left alone
Game_sync_compare_keeping_result(st, name, first, second) ==
    IF Str(first) # Str(second)
    THEN [st EXCEPT !.sync_log = @ \o << <<"diff", name>>, Str(first), Str(second) >>]
    ELSE st

\* Game._sync_compare, lines 732-751; st holds is_server_game_synchronized
\* and sync_log
Game_sync_compare(st, name, first, second) ==
    IF Str(first) # Str(second)
    THEN [st EXCEPT !.is_server_game_synchronized = FALSE,
                    !.sync_log =
                        IF name = "tile_racks"
                        THEN SyncCompareRacksLoop(name, first, second, 1, @)
                        ELSE @ \o << <<"diff", name>>, Str(first), Str(second) >>]
    ELSE st

\* faulty variant: a message with a target is appended to every history
RECURSIVE ServerHistoriesLoop_to_every_player(_, _, _)
ServerHistoriesLoop_to_every_player(history_messages, i, histories) ==
    IF i > Len(history_messages) THEN histories
    ELSE ServerHistoriesLoop_to_every_player(history_messages, i + 1,
             [p \in DOMAIN histories |-> Append(histories[p], history_messages[i].message)])

\* lines 712-717: the loop over self.server_game.history_messages from
\* place i on; histories[p + 1] is the list of player p
RECURSIVE ServerHistoriesLoop(_, _, _)
ServerHistoriesLoop(history_messages, i, histories) ==
    IF i > Len(history_messages) THEN histories
    ELSE LET target_player_id == history_messages[i].target_player_id
             message == history_messages[i].message
         IN  ServerHistoriesLoop(history_messages, i + 1,
                 IF target_player_id.is_none
                 THEN [p \in DOMAIN histories |-> Append(histories[p], message)]
                 ELSE [histories EXCEPT ![target_player_id.player_id + 1] = Append(@, message)])

\* faulty variant: the whole history of the simulation is considered
HistoryUnderConsideration_whole(server_game_history, local_game_history) ==
    server_game_history

\* line 725: server_game_history[:len(local_game_history)]
HistoryUnderConsideration(server_game_history, local_game_history) ==
    SubSeq(server_game_history, 1,
           IF Len(local_game_history) < Len(server_game_history)
           THEN Len(local_game_history) ELSE Len(server_game_history))

\* lines 724-730: the loop over the zip of the two lists of histories from
\* place i on
RECURSIVE CompareHistoriesLoop(_, _, _, _)
CompareHistoriesLoop(local, server, i, st) ==
    IF i > Len(local) \/ i > Len(server) THEN st
    ELSE LET under_consideration == HistoryUnderConsideration(server[i], local[i])
         IN  CompareHistoriesLoop(local, server, i + 1,
                 IF local[i] # under_consideration
                 THEN [st EXCEPT !.is_server_game_synchronized = FALSE,
                                 !.sync_log = @ \o
                                     << <<"diff for player_id", "player_id_to_game_history", i - 1>>,
                                        Str(local[i]), Str(under_consideration) >>]
                 ELSE st)

\* line 709
LocalPlayerIdToGameHistory(game) ==
    LET usernames == OD_Values(game.player_id_to_username)
    IN  [p \in DOMAIN usernames |-> game.username_to_game_history[usernames[p]]]

\* lines 711-717
ServerPlayerIdToGameHistory(server_game) ==
    ServerHistoriesLoop(server_game.history_messages, 1,
                        [p \in 1..server_game.num_players |-> << >>])

\* Game.compare_with_server_game, lines 687-730: is_server_game_synchronized
\* and sync_log when it returns
Game_compare_with_server_game(game, server_game) ==
    LET num_players == Len(game.player_id_to_username)
        st0 == [is_server_game_synchronized |-> TRUE, sync_log |-> << >>]
        st1 == Game_sync_compare(st0, "board", game.board, server_game.x_to_y_to_board_type)
        st2 == Game_sync_compare(st1, "score_sheet_players",
                                 Slice(game.score_sheet_players, num_players),
                                 VisibleColumns(server_game.player_data))
        st3 == Game_sync_compare(st2, "score_sheet_chain_size",
                                 game.score_sheet_chain_size, server_game.chain_size)
        st4 == IF server_game.tile_racks.tracked
               THEN Game_sync_compare(st3, "tile_racks", Slice(game.tile_racks, num_players),
                                      ServerTileRacks(server_game.tile_racks.racks))
               ELSE st3
    IN  CompareHistoriesLoop(LocalPlayerIdToGameHistory(game),
                             ServerPlayerIdToGameHistory(server_game), 1, st4)

(***************************************************************************)
(* SpecCompare: a game of one or two players that has been replayed is     *)
(* compared with its simulation.  The simulation has one score row and,    *)
(* when it tracks racks, one rack for each player that joined it, and the  *)
(* target of a history message is None or one of its players.  Here        *)
(* emitted holds the game, log_processor the simulation, and event what    *)
(* compare_with_server_game left: is_server_game_synchronized, sync_log    *)
(* and its local server_player_id_to_game_history.                         *)
(***************************************************************************)
MaxMessages == 2

CompareMessages == {MessageTurnBegan(0), MessageDrewTile(0, 0, 0)}
SeqsUpTo(S, n) == UNION {[1..k -> S] : k \in 0..n}

\* the game as the log showed it: player 0 holds tile (0, 0)
CompareGame(num_players, history0, history1) ==
    [NewGame(LogTimestamp, 1, 1, 1) EXCEPT
        !.player_id_to_username =
            IF num_players = 1 THEN <<[k |-> 0, v |-> "alice"]>>
            ELSE <<[k |-> 0, v |-> "alice"], [k |-> 1, v |-> "bob"]>>,
        !.username_to_player_id =
            IF num_players = 1 THEN ("alice" :> 0) ELSE ("alice" :> 0) @@ ("bob" :> 1),
        !.player_join_order = IF num_players = 1 THEN <<"alice">> ELSE <<"alice", "bob">>,
        !.tile_racks = [@ EXCEPT ![0] = [@ EXCEPT ![0] = <<0, 0>>]],
        !.username_to_game_history =
            IF num_players = 1 THEN ("alice" :> history0)
            ELSE ("alice" :> history0) @@ ("bob" :> history1)]

\* how the simulation stands to the game in board, chain sizes, score rows
\* and racks
CompareVariants ==
    {[board |-> b, chain_size |-> c, player_data |-> "same", tile_racks |-> "same"] :
        b \in BOOLEAN, c \in BOOLEAN}
    \cup {[board |-> TRUE, chain_size |-> TRUE, player_data |-> d, tile_racks |-> r] :
            d \in {"same", "other column", "other cash"},
            r \in {"same", "none", "other tile", "other tile of last player"}}

ServerGame(game, variant, num_players, history_messages) ==
    LET rack == [i \in 0..(TileRackSize - 1) |-> << >>]
    IN  [x_to_y_to_board_type |->
            IF variant.board THEN game.board
            ELSE [game.board EXCEPT ![<<0, 0>>] = "NothingYet"],
         chain_size |->
            IF variant.chain_size THEN game.score_sheet_chain_size
            ELSE [game.score_sheet_chain_size EXCEPT ![1] = 2],
         player_data |->
            [p \in 1..num_players |->
                IF p = num_players /\ variant.player_data = "other cash"
                THEN <<0, 0, 0, 0, 0, 0, 0, 58, 0>>
                ELSE IF p = num_players /\ variant.player_data = "other column"
                THEN <<0, 0, 0, 0, 0, 0, 0, 60, 7>>
                ELSE <<0, 0, 0, 0, 0, 0, 0, 60, 0>>],
         num_players |-> num_players,
         tile_racks |->
            [tracked |-> variant.tile_racks # "none",
             racks |->
                [p \in 1..num_players |->
                    IF p = 1 /\ variant.tile_racks # "other tile"
                    THEN [rack EXCEPT ![0] = <<<<0, 0>>, 0>>]
                    ELSE IF p = 1 THEN [rack EXCEPT ![0] = <<<<1, 1>>, 0>>]
                    ELSE IF p = num_players /\ variant.tile_racks = "other tile of last player"
                    THEN [rack EXCEPT ![1] = <<<<2, 2>>, 0>>]
                    ELSE rack]],
         history_messages |-> history_messages]

ServerHistoryMessages(num_players) ==
    SeqsUpTo({[target_player_id |-> t, message |-> m] :
                 t \in {[is_none |-> TRUE, player_id |-> 0]}
                       \cup {[is_none |-> FALSE, player_id |-> p] : p \in 0..(num_players - 1)},
                 m \in CompareMessages},
             MaxMessages)

InitCompare ==
    /\ pc = "made"
    /\ log_parser = [entries |-> << >>]
    /\ \E num_players \in 1..2, history0 \in SeqsUpTo(CompareMessages, MaxMessages),
          history1 \in SeqsUpTo(CompareMessages, 1) :
          LET game == CompareGame(num_players, history0, history1)
          IN  /\ emitted = <<game>>
              /\ \E variant \in CompareVariants, joined \in 1..2 :
                 \E history_messages \in ServerHistoryMessages(joined) :
                    log_processor = ServerGame(game, variant, joined, history_messages)
    /\ event = [is_server_game_synchronized |-> TRUE, sync_log |-> << >>,
                server_player_id_to_game_history |-> << >>]

\* Game.compare_with_server_game on the game and its simulation
CompareWithServerGame ==
    /\ pc = "made"
    /\ pc' = "compared"
    /\ LET st == Game_compare_with_server_game(emitted[1], log_processor)
       IN  event' = [is_server_game_synchronized |-> st.is_server_game_synchronized,
                     sync_log |-> st.sync_log,
                     server_player_id_to_game_history |->
                         ServerPlayerIdToGameHistory(log_processor)]
    /\ UNCHANGED <<log_parser, log_processor, emitted>>

NextCompare ==
    \/ CompareWithServerGame

SpecCompare == InitCompare /\ [][NextCompare]_vars

(***************************************************************************)
(* IndividualGameLogMaker, the slicer.  The object is a record of its      *)
(* fields, m; raised tells that an exception is on its way out of the      *)
(* method.  None is kept as NoId in _batch_add_client_id,                  *)
(* _batch_remove_client_id and _batch_game_id.  A batch is the list of the *)
(* lines of a frame.                                                       *)
(***************************************************************************)
NoId == -1
\* if x: for x None or a number
TruthyId(x) == x # NoId /\ x # 0

\* IndividualGameLog.__init__, lines 1166-1173
NewIndividualGameLog(log_timestamp, internal_game_id) ==
    [log_timestamp |-> log_timestamp,
     internal_game_id |-> internal_game_id,
     player_id_to_username |-> EmptyDict,
     username_to_player_id |-> EmptyDict,
     line_number_to_batch |-> EmptyDict]

\* IndividualGameLogMaker.__init__, lines 900-977
NewIndividualGameLogMaker ==
    [log_timestamp |-> LogTimestamp,
     client_id_to_username |-> EmptyDict,
     username_to_client_id |-> EmptyDict,
     client_id_to_game_id |-> EmptyDict,
     delayed_calls |-> << >>,
     line_number |-> 1,
     batch_line_number |-> 1,
     batch |-> << >>,
     game_id_to_game_log |-> EmptyDict,
     batch_add_client_id |-> NoId,
     batch_remove_client_id |-> NoId,
     batch_game_id |-> NoId,
     batch_game_client_ids |-> << >>,
     batch_destroy_game_ids |-> << >>,
     client_id_to_add_batch |-> EmptyDict,
     completed_game_logs |-> << >>,
     raised |-> FALSE]

\* lines 1000-1005
IndividualGameLogMaker_handle_connect(m, client_id, username) ==
    [m EXCEPT !.batch_add_client_id =
                  IF ~OD_Has(m.client_id_to_username, client_id)
                     \/ OD_Get(m.client_id_to_username, client_id) # username
                  THEN client_id ELSE @,
              !.client_id_to_username = OD_Put(@, client_id, username),
              !.username_to_client_id = Put(@, username, client_id)]

\* lines 1007-1008
IndividualGameLogMaker_handle_disconnect(m, client_id) ==
    [m EXCEPT !.delayed_calls = Append(@, client_id)]

\* lines 1010-1015 (a username is not the empty string)
IndividualGameLogMaker_handle_disconnect__delayed(m, client_id) ==
    IF ~OD_Has(m.client_id_to_username, client_id)
    THEN [m EXCEPT !.raised = TRUE]
    ELSE [m EXCEPT !.batch_remove_client_id = client_id,
                   !.client_id_to_username = OD_Del(@, client_id),
                   !.username_to_client_id = InvertDict(OD_Del(m.client_id_to_username, client_id))]

\* lines 1032, 1035, 1038 and 1056:
\* self._batch_game_id = self._client_id_to_game_id[client_ids[0]]
IndividualGameLogMaker_batch_game_id_of_client(m, client_ids) ==
    IF client_ids = << >> \/ client_ids[1] \notin DOMAIN m.client_id_to_game_id
    THEN [m EXCEPT !.raised = TRUE]
    ELSE [m EXCEPT !.batch_game_id = m.client_id_to_game_id[client_ids[1]]]

\* lines 1064-1067
IndividualGameLogMaker_add_client_id_to_game(m, game_id, client_id) ==
    [m EXCEPT !.client_id_to_game_id = Put(@, client_id, game_id),
              !.batch_game_id = game_id]

\* lines 1069-1073
IndividualGameLogMaker_remove_client_id_from_game(m, client_id) ==
    IF client_id \in DOMAIN m.client_id_to_game_id
    THEN [m EXCEPT !.batch_game_id = m.client_id_to_game_id[client_id],
                   !.client_id_to_game_id = Del(@, client_id)]
    ELSE m

\* lines 1075-1081
IndividualGameLogMaker_remove_player_id_from_game(m, game_id, player_id) ==
    IF ~OD_Has(m.game_id_to_game_log, game_id)
    THEN [m EXCEPT !.raised = TRUE]
    ELSE LET game_log == OD_Get(m.game_id_to_game_log, game_id)
         IN  IF player_id \notin DOMAIN game_log.player_id_to_username
             THEN [m EXCEPT !.raised = TRUE]
             ELSE LET username == game_log.player_id_to_username[player_id]
                  IN  IF username \notin DOMAIN m.username_to_client_id
                      THEN [m EXCEPT !.raised = TRUE]
                      ELSE LET client_id == m.username_to_client_id[username]
                           IN  IF client_id \in DOMAIN m.client_id_to_game_id
                               THEN [m EXCEPT !.batch_game_id = game_id,
                                              !.client_id_to_game_id = Del(@, client_id)]
                               ELSE m

\* handler(client_ids, command) for
\* handler = self._commands_to_client_handlers.get(command[0]), lines 921-949
\* and 1031-1062
IndividualGameLogMaker_call_command_to_client_handler(m, client_ids, command) ==
    CASE command[1] \in {"SetGameBoardCell", "SetScoreSheetCell", "SetScoreSheet", "SetTile"} ->
             IndividualGameLogMaker_batch_game_id_of_client(m, client_ids)
      [] command[1] \in {"SetGamePlayerJoin", "SetGamePlayerRejoin"} ->
             IndividualGameLogMaker_add_client_id_to_game(m, command[2], command[4])
      [] command[1] = "SetGamePlayerLeave" ->
             IndividualGameLogMaker_remove_client_id_from_game(m, command[4])
      [] command[1] = "SetGameWatcherClientId" ->
             IndividualGameLogMaker_add_client_id_to_game(m, command[2], command[3])
      [] command[1] = "ReturnWatcherToLobby" ->
             IndividualGameLogMaker_remove_client_id_from_game(m, command[3])
      [] command[1] = "SetGamePlayerClientId" ->
             IF command[4] = JsonNull
             THEN IndividualGameLogMaker_remove_player_id_from_game(m, command[2], command[3])
             ELSE IndividualGameLogMaker_add_client_id_to_game(m, command[2], command[4])
      [] OTHER -> m

\* lines 1022-1029: the loop over the commands from command i on; an
\* exception of a handler is printed and dropped
RECURSIVE IndividualGameLogMaker_handle_command_to_client(_, _, _, _)
IndividualGameLogMaker_handle_command_to_client(m, client_ids, commands, i) ==
    IF i > Len(commands) THEN m
    ELSE LET m1 == IndividualGameLogMaker_call_command_to_client_handler(m, client_ids,
                                                                          commands[i])
         IN  IndividualGameLogMaker_handle_command_to_client(
                 [m1 EXCEPT !.raised = FALSE], client_ids, commands, i + 1)

\* lines 1091-1099
IndividualGameLogMaker_handle_command_to_server__do_game_action(m, client_id, command) ==
    IF client_id \notin DOMAIN m.client_id_to_game_id
    THEN m
    ELSE LET game_id == m.client_id_to_game_id[client_id]
         IN  IF ~Truthy(game_id)
             THEN m
             ELSE IF ~OD_Has(m.game_id_to_game_log, game_id)
                     \/ ~OD_Has(m.client_id_to_username, client_id)
             THEN [m EXCEPT !.raised = TRUE]
             ELSE IF OD_Get(m.client_id_to_username, client_id)
                        \in DOMAIN OD_Get(m.game_id_to_game_log, game_id).username_to_player_id
             THEN [m EXCEPT !.batch_game_id = game_id]
             ELSE m

\* lines 1083-1089
IndividualGameLogMaker_handle_command_to_server(m, client_id, command) ==
    IF command[1] = "DoGameAction"
    THEN [IndividualGameLogMaker_handle_command_to_server__do_game_action(m, client_id, command)
             EXCEPT !.raised = FALSE]
    ELSE m

\* lines 1101-1102
IndividualGameLogMaker_handle_game_expired(m, game_id) ==
    [m EXCEPT !.batch_destroy_game_ids = Append(@, game_id)]

\* line 1116: the lines of the batch that are not '<client id> disconnect'
WithoutDisconnectLines(batch) == SelectSeq(batch, LAMBDA line : line.shape # "disconnect")

\* lines 1114-1117: the loop over self._client_id_to_add_batch.items() from
\* item i on
RECURSIVE CopyAddBatchesLoop(_, _, _)
CopyAddBatchesLoop(client_id_to_add_batch, i, game_log) ==
    IF i > Len(client_id_to_add_batch) THEN game_log
    ELSE LET add_batch == client_id_to_add_batch[i].v
         IN  CopyAddBatchesLoop(client_id_to_add_batch, i + 1,
                 [game_log EXCEPT !.line_number_to_batch =
                     Put(@, add_batch.batch_line_number, WithoutDisconnectLines(add_batch.batch))])

\* lines 1104-1124
IndividualGameLogMaker_handle_log(m, entry) ==
    IF "game-id" \notin DOMAIN entry
    THEN [m EXCEPT !.raised = TRUE]
    ELSE LET game_id == IF "external-game-id" \in DOMAIN entry
                        THEN entry["external-game-id"] ELSE entry["game-id"]
             internal_game_id == entry["game-id"]
             game_log == IF OD_Has(m.game_id_to_game_log, game_id)
                         THEN OD_Get(m.game_id_to_game_log, game_id)
                         ELSE CopyAddBatchesLoop(m.client_id_to_add_batch, 1,
                                  NewIndividualGameLog(m.log_timestamp, internal_game_id))
             m1 == [m EXCEPT !.game_id_to_game_log = OD_Put(@, game_id, game_log)]
         IN  IF "_" \notin DOMAIN entry
             THEN [m1 EXCEPT !.raised = TRUE]
             ELSE IF entry["_"] # "game-player"
             THEN m1
             ELSE IF "player-id" \notin DOMAIN entry \/ "username" \notin DOMAIN entry
             THEN [m1 EXCEPT !.raised = TRUE]
             ELSE [m1 EXCEPT !.game_id_to_game_log = OD_Put(@, game_id,
                      [game_log EXCEPT
                          !.player_id_to_username = Put(@, entry["player-id"], entry["username"]),
                          !.username_to_player_id = Put(@, entry["username"], entry["player-id"])])]

\* game_log.line_number_to_batch[batch_line_number] = batch for every
\* game_log of self._game_id_to_game_log, lines 1138-1139 and 1145-1146
StoreBatchInEveryGameLog(game_id_to_game_log, batch_line_number, batch) ==
    [i \in DOMAIN game_id_to_game_log |->
        [game_id_to_game_log[i] EXCEPT !.v.line_number_to_batch =
            Put(@, batch_line_number, batch)]]

\* lines 1158-1160: the loop over self._batch_destroy_game_ids from place
\* i on
RECURSIVE DestroyGamesLoop(_, _)
DestroyGamesLoop(m, i) ==
    IF i > Len(m.batch_destroy_game_ids) THEN m
    ELSE LET game_id == m.batch_destroy_game_ids[i]
         IN  IF ~OD_Has(m.game_id_to_game_log, game_id)
             THEN [m EXCEPT !.raised = TRUE]
             ELSE DestroyGamesLoop(
                      [m EXCEPT !.completed_game_logs =
                                    Append(@, OD_Get(m.game_id_to_game_log, game_id)),
                                !.game_id_to_game_log = OD_Del(@, game_id)], i + 1)

\* IndividualGameLogMaker._batch_completed, lines 1136-1162
IndividualGameLogMaker_batch_completed(m, batch_line_number, batch) ==
    LET m1 == IF TruthyId(m.batch_add_client_id)
              THEN [m EXCEPT !.game_id_to_game_log =
                                 StoreBatchInEveryGameLog(@, batch_line_number, batch),
                             !.client_id_to_add_batch =
                                 OD_Put(@, m.batch_add_client_id,
                                        [batch_line_number |-> batch_line_number,
                                         batch |-> batch]),
                             !.batch_add_client_id = NoId]
              ELSE m
        m2 == IF ~TruthyId(m1.batch_remove_client_id)
              THEN m1
              ELSE IF ~OD_Has(m1.client_id_to_add_batch, m1.batch_remove_client_id)
              THEN [m1 EXCEPT !.game_id_to_game_log =
                                  StoreBatchInEveryGameLog(@, batch_line_number, batch),
                              !.raised = TRUE]
              ELSE [m1 EXCEPT !.game_id_to_game_log =
                                  StoreBatchInEveryGameLog(@, batch_line_number, batch),
                              !.client_id_to_add_batch = OD_Del(@, m1.batch_remove_client_id),
                              !.batch_remove_client_id = NoId]
        m3 == IF m2.raised \/ ~TruthyId(m2.batch_game_id)
              THEN m2
              ELSE IF ~OD_Has(m2.game_id_to_game_log, m2.batch_game_id)
              THEN [m2 EXCEPT !.raised = TRUE]
              ELSE [m2 EXCEPT !.game_id_to_game_log =
                                  OD_Put(@, m2.batch_game_id,
                                         [OD_Get(m2.game_id_to_game_log, m2.batch_game_id) EXCEPT
                                             !.line_number_to_batch =
                                                 Put(@, batch_line_number, batch)]),
                              !.batch_game_id = NoId]
    IN  IF m3.raised \/ m3.batch_destroy_game_ids = << >>
        THEN m3
        ELSE LET m4 == DestroyGamesLoop(m3, 1)
             IN  IF m4.raised THEN m4 ELSE [m4 EXCEPT !.batch_destroy_game_ids = << >>]

\* lines 1127-1130: the delayed calls from call i on
RECURSIVE IndividualGameLogMaker_run_delayed_calls(_, _)
IndividualGameLogMaker_run_delayed_calls(m, i) ==
    IF i > Len(m.delayed_calls) THEN [m EXCEPT !.delayed_calls = << >>]
    ELSE LET m1 == IndividualGameLogMaker_handle_disconnect__delayed(m, m.delayed_calls[i])
         IN  IF m1.raised THEN m1 ELSE IndividualGameLogMaker_run_delayed_calls(m1, i + 1)

\* IndividualGameLogMaker._handle_blank_line, lines 1126-1134
IndividualGameLogMaker_handle_blank_line(m) ==
    LET m1 == IndividualGameLogMaker_run_delayed_calls(m, 1)
        m2 == IF m1.raised THEN m1
              ELSE IndividualGameLogMaker_batch_completed(m1, m1.batch_line_number, m1.batch)
    IN  IF m2.raised THEN m2
        ELSE [m2 EXCEPT !.batch_line_number = m2.line_number + 1, !.batch = << >>]

\* lines 981-986: one turn of the loop of IndividualGameLogMaker.go for the
\* event ev of LogParser.go
IndividualGameLogMaker_handle_event(m, ev) ==
    LET m1 == [m EXCEPT !.batch = Append(@, ev.line)]
        m2 == [m1 EXCEPT !.line_number = ev.line_number]
        data == ev.parse_line_data
    IN  CASE ev.line_type = "connect" ->
                 IndividualGameLogMaker_handle_connect(m2, data[1], data[2])
          [] ev.line_type = "disconnect" -> IndividualGameLogMaker_handle_disconnect(m2, data[1])
          [] ev.line_type = "command_to_client" ->
                 IndividualGameLogMaker_handle_command_to_client(m2, data[1], data[2], 1)
          [] ev.line_type = "command_to_server" ->
                 IndividualGameLogMaker_handle_command_to_server(m2, data[1], data[2])
          [] ev.line_type = "game_expired" ->
                 IndividualGameLogMaker_handle_game_expired(m2, data[1])
          [] ev.line_type = "log" -> IndividualGameLogMaker_handle_log(m2, data[1])
          [] ev.line_type \in {"blank_line", "connection_made", "error"} ->
                 IndividualGameLogMaker_handle_blank_line(m2)
          [] OTHER -> m1

\* lines 993-995, after the loop of go; the line number None is kept as 0
\* and the batch None as the empty list
IndividualGameLogMaker_end_of_go(m) ==
    IndividualGameLogMaker_batch_completed(
        [m EXCEPT !.batch_destroy_game_ids =
                      @ \o [i \in DOMAIN m.game_id_to_game_log |-> m.game_id_to_game_log[i].k]],
        0, << >>)

\* LogProcessor.go (lines 339-355) on a file of these lines, from line i on:
\* the games it yields, and whether an exception left it
RECURSIVE LogProcessor_go(_, _, _, _)
LogProcessor_go(lines, i, lp, yielded) ==
    IF i > Len(lines)
    THEN [games |-> yielded \o OD_Values(lp.game_id_to_game), raised |-> FALSE]
    ELSE LET matched == MatchLine(1, lines[i], 0)
             lp1 == CallLineHandler([lp EXCEPT !.printed_tracebacks = {}],
                                    matched.handled_line_type, matched.parse_line_data)
         IN  IF matched.kind = "raise" \/ lp1.raised
             THEN [games |-> yielded, raised |-> TRUE]
             ELSE IF matched.kind = "stop"
             THEN [games |-> yielded \o OD_Values(lp.game_id_to_game), raised |-> FALSE]
             ELSE LogProcessor_go(lines, i + 1, [lp1 EXCEPT !.expired_games = << >>],
                                  yielded \o lp1.expired_games)

\* the lines IndividualGameLog.make_game_log_file (lines 1175-1180) writes:
\* for each batch, by line number, a '--- batch line number' line and the
\* lines of the batch
RECURSIVE GameLogFileLines(_, _)
GameLogFileLines(line_number_to_batch, line_numbers) ==
    IF line_numbers = << >> THEN << >>
    ELSE <<OtherLine>> \o line_number_to_batch[Head(line_numbers)]
         \o GameLogFileLines(line_number_to_batch, Tail(line_numbers))
IndividualGameLog_make_game_log_file(game_log) ==
    GameLogFileLines(game_log.line_number_to_batch, Sorted(DOMAIN game_log.line_number_to_batch))

(***************************************************************************)
(* SpecSlicer: IndividualGameLogMaker.go reads a file of at most MaxLines  *)
(* lines in which clients 0 (alice) and 1 (bob) connect and disconnect,    *)
(* games 1 and 2 are logged, joined, played and expire.  Here log_parser   *)
(* holds the state of the LogParser and the lines of the file read so far, *)
(* log_processor the IndividualGameLogMaker, and emitted the game logs go  *)
(* has yielded.                                                            *)
(***************************************************************************)
SlicerConnectLines == {ConnectLine(0, "alice"), ConnectLine(1, "bob")}
SlicerDisconnectLines == {DisconnectLine(0), DisconnectLine(1)}
SlicerGameIds == {1, 2}
SlicerLogLines ==
    {LogLine(Entry("game", g) @@ ("state" :> "InProgress")) : g \in SlicerGameIds}
    \cup {LogLine(Entry("game-player", 1) @@ ("player-id" :> 0) @@ ("username" :> "bob"))}
SlicerCommandToClientLines ==
    {CommandToClientLine(<<1>>, <<SetGamePlayerJoin(1, 0, 1)>>),
     CommandToClientLine(<<0>>, <<SetGamePlayerJoin(1, 1, 0)>>),
     CommandToClientLine(<<1>>, <<SetGamePlayerJoin(2, 0, 1)>>),
     CommandToClientLine(<<1>>, <<SetGameBoardCell(0, 0, "NothingYet")>>)}
SlicerCommandToServerLines == {CommandToServerLine(1, DoGameAction(1))}
SlicerGameExpiredLines == {GameExpiredLine(1)}

InitSlicer ==
    /\ pc = "reading"
    /\ log_parser = [line_number |-> 0, connection_made_count |-> 0, lines |-> << >>]
    /\ event = NoEvent
    /\ log_processor = NewIndividualGameLogMaker
    /\ emitted = << >>

\* one turn of the loops of LogParser.go and IndividualGameLogMaker.go
\* (lines 980-991) on the next line of the file
SliceLine(line) ==
    /\ pc = "reading"
    /\ log_parser.line_number < MaxLines
    /\ LET matched == MatchLine(1, line, log_parser.connection_made_count)
           ev == [line_type |-> matched.handled_line_type,
                  line_number |-> log_parser.line_number + 1,
                  line |-> line,
                  parse_line_data |-> matched.parse_line_data]
           m == IndividualGameLogMaker_handle_event(log_processor, ev)
       IN  /\ matched.kind = "yield"
           /\ log_parser' = [line_number |-> log_parser.line_number + 1,
                             connection_made_count |-> log_parser.connection_made_count,
                             lines |-> Append(log_parser.lines, line)]
           /\ event' = ev
           /\ pc' = IF m.raised THEN "fault" ELSE "reading"
           /\ log_processor' = [m EXCEPT !.completed_game_logs = << >>]
           /\ emitted' = IF m.raised THEN emitted ELSE emitted \o m.completed_game_logs

SliceConnect == \E line \in SlicerConnectLines : SliceLine(line)
SliceDisconnect == \E line \in SlicerDisconnectLines : SliceLine(line)
SliceLog == \E line \in SlicerLogLines : SliceLine(line)
SliceCommandToClient == \E line \in SlicerCommandToClientLines : SliceLine(line)
SliceCommandToServer == \E line \in SlicerCommandToServerLines : SliceLine(line)
SliceGameExpired == \E line \in SlicerGameExpiredLines : SliceLine(line)
SliceBlankLine == SliceLine(BlankLine)

\* the file has no more lines: lines 993-998
SliceEndOfFile ==
    /\ pc = "reading"
    /\ LET m == IndividualGameLogMaker_end_of_go(log_processor)
       IN  /\ pc' = IF m.raised THEN "fault" ELSE "done"
           /\ log_processor' = [m EXCEPT !.completed_game_logs = << >>]
           /\ emitted' = IF m.raised THEN emitted ELSE emitted \o m.completed_game_logs
    /\ UNCHANGED <<log_parser, event>>

NextSlicer ==
    \/ SliceConnect
    \/ SliceDisconnect
    \/ SliceLog
    \/ SliceCommandToClient
    \/ SliceCommandToServer
    \/ SliceGameExpired
    \/ SliceBlankLine
    \/ SliceEndOfFile

SpecSlicer == InitSlicer /\ [][NextSlicer]_vars

(***************************************************************************)
(* SpecRouting: LogProcessor.go and IndividualGameLogMaker.go read the     *)
(* same file of at most MaxLines lines, event by event: client 1 connects  *)
(* as bob or as alice and disconnects, bob is made player 0 of game 1, and *)
(* the commands that route a client are sent.  Here log_processor holds    *)
(* the LogProcessor and emitted the IndividualGameLogMaker.                *)
(***************************************************************************)
SetGamePlayerClientId(game_id, player_id, client_id) ==
    <<"SetGamePlayerClientId", game_id, player_id, client_id>>
ReturnWatcherToLobby(game_id, client_id) == <<"ReturnWatcherToLobby", game_id, client_id>>

RoutingConnectLines == {ConnectLine(1, "bob"), ConnectLine(1, "alice")}
RoutingLogLines ==
    {LogLine(Entry("game-player", 1) @@ ("player-id" :> 0) @@ ("username" :> "bob"))}
RoutingCommandToClientLines ==
    {CommandToClientLine(<<1>>, <<command>>) :
        command \in {SetGamePlayerJoin(1, 0, 1), SetGamePlayerLeave(1, 0, 1),
                     SetGameWatcherClientId(1, 1), ReturnWatcherToLobby(1, 1),
                     SetGamePlayerClientId(1, 0, 1), SetGamePlayerClientId(1, 0, JsonNull)}}

InitRouting ==
    /\ pc = "reading"
    /\ log_parser = [line_number |-> 0, connection_made_count |-> 0, lines |-> << >>]
    /\ event = NoEvent
    /\ log_processor = NewLogProcessor
    /\ emitted = NewIndividualGameLogMaker

\* one turn of the loop of LogParser.go on the next line of the file, and
\* of the loops of LogProcessor.go (lines 345-352) and of
\* IndividualGameLogMaker.go (lines 981-991) on the event
RouteLine(line) ==
    /\ pc = "reading"
    /\ log_parser.line_number < MaxLines
    /\ LET matched == MatchLine(1, line, log_parser.connection_made_count)
           ev == [line_type |-> matched.handled_line_type,
                  line_number |-> log_parser.line_number + 1,
                  line |-> line,
                  parse_line_data |-> matched.parse_line_data]
           lp == CallLineHandler([log_processor EXCEPT !.printed_tracebacks = {}],
                                 ev.line_type, ev.parse_line_data)
           m == IndividualGameLogMaker_handle_event(emitted, ev)
       IN  /\ matched.kind = "yield"
           /\ log_parser' = [line_number |-> log_parser.line_number + 1,
                             connection_made_count |-> log_parser.connection_made_count,
                             lines |-> Append(log_parser.lines, line)]
           /\ event' = ev
           /\ pc' = IF lp.raised \/ m.raised THEN "fault" ELSE "reading"
           /\ log_processor' = [lp EXCEPT !.expired_games = << >>]
           /\ emitted' = [m EXCEPT !.completed_game_logs = << >>]

RouteConnect == \E line \in RoutingConnectLines : RouteLine(line)
RouteDisconnect == RouteLine(DisconnectLine(1))
RouteLog == \E line \in RoutingLogLines : RouteLine(line)
RouteCommandToClient == \E line \in RoutingCommandToClientLines : RouteLine(line)
RouteGameExpired == RouteLine(GameExpiredLine(1))
RouteBlankLine == RouteLine(BlankLine)

NextRouting ==
    \/ RouteConnect
    \/ RouteDisconnect
    \/ RouteLog
    \/ RouteCommandToClient
    \/ RouteGameExpired
    \/ RouteBlankLine

SpecRouting == InitRouting /\ [][NextRouting]_vars

(***************************************************************************)
(* SpecQuiet: files of time lines, of 'game-player' entries that make bob  *)
(* or alice a player of game 1, of the connect line of bob as client 1, of *)
(* a batch that makes client 1 join game 1, sets board cell (0, 0) and     *)
(* adds a history message, and of batches of one routing command each.     *)
(***************************************************************************)
SetGamePlayerRejoin(game_id, player_id, client_id) ==
    <<"SetGamePlayerRejoin", game_id, player_id, client_id>>
QuietPlayerEntries ==
    {Entry("game-player", 1) @@ ("player-id" :> 0) @@ ("username" :> "bob"),
     Entry("game-player", 1) @@ ("player-id" :> 1) @@ ("username" :> "bob"),
     Entry("game-player", 1) @@ ("player-id" :> 0) @@ ("username" :> "alice")}
QuietRoutingCommands ==
    {SetGamePlayerJoin(1, 0, 1), SetGamePlayerRejoin(0, 0, 1), SetGamePlayerLeave(1, 0, 1),
     SetGameWatcherClientId(0, 1), ReturnWatcherToLobby(1, 1)}
QuietBatchLines ==
    {CommandToClientLine(<<1>>, <<SetGamePlayerJoin(1, 0, 1), SetGameBoardCell(0, 0, "NothingYet"),
                                  AddGameHistoryMessage(MessageTurnBegan(0))>>)}
    \cup {CommandToClientLine(<<1>>, <<command>>) : command \in QuietRoutingCommands}

NextQuiet ==
    \/ ReadTime
    \/ ReadLog(QuietPlayerEntries)
    \/ ReadConnect({ConnectLine(1, "bob")})
    \/ ReadCommandToClient(QuietBatchLines)
    \/ EndOfFile
    \/ FinalBlankLine
    \/ EndOfStream

SpecQuiet == Init /\ [][NextQuiet]_vars

(***************************************************************************)
(* SpecCells: files in which game 1 is named by a structured entry, client *)
(* 0 joins it and is sent SetGameBoardCell commands for the cells (0, 0)   *)
(* and (1, 0), with the type code of an empty cell and with two others.    *)
(***************************************************************************)
CellTypeIds == {GameBoardTypeNothing, "NothingYet", "WillPutLonelyTileDown"}
CellLines ==
    {CommandToClientLine(<<0>>, <<SetGamePlayerJoin(1, 0, 0)>>)}
    \cup {CommandToClientLine(<<0>>, <<SetGameBoardCell(x, 0, t)>>) : x \in {0, 1}, t \in CellTypeIds}

NextCells ==
    \/ ReadLog({Entry("game", 1)})
    \/ ReadCommandToClient(CellLines)
    \/ EndOfFile
    \/ FinalBlankLine
    \/ EndOfStream

SpecCells == Init /\ [][NextCells]_vars

(***************************************************************************)
(* SpecOrder: the log names alice as player 0 and bob as player 1 of game  *)
(* 1 in two 'game-player' entries, in either order; the game, with the     *)
(* histories the log showed of the two, is compared with a simulation of   *)
(* two players that equals it in board, score sheet and racks.  The        *)
(* variables hold what they hold in SpecCompare, and log_parser the        *)
(* entries in the order of the log.                                        *)
(***************************************************************************)
OrderEntries ==
    {Entry("game-player", 1) @@ ("player-id" :> 0) @@ ("username" :> "alice"),
     Entry("game-player", 1) @@ ("player-id" :> 1) @@ ("username" :> "bob")}

\* the Game LogProcessor._handle_log makes of the two entries, and the
\* histories the commands to the clients of alice and of bob gave it
OrderGame(first, second, history_alice, history_bob) ==
    LET lp == LogProcessor_handle_log(LogProcessor_handle_log(NewLogProcessor, first), second)
        game == OD_Get(lp.game_id_to_game, 1)
    IN  [game EXCEPT
            !.tile_racks = [@ EXCEPT ![0] = [@ EXCEPT ![0] = <<0, 0>>]],
            !.username_to_game_history = ("alice" :> history_alice) @@ ("bob" :> history_bob)]

InitOrder ==
    /\ pc = "made"
    /\ \E first \in OrderEntries, second \in OrderEntries,
          history_alice \in SeqsUpTo(CompareMessages, MaxMessages),
          history_bob \in SeqsUpTo(CompareMessages, 1) :
          LET game == OrderGame(first, second, history_alice, history_bob)
          IN  /\ first # second
              /\ log_parser = [entries |-> <<first, second>>]
              /\ emitted = <<game>>
              /\ \E history_messages \in ServerHistoryMessages(2) :
                    log_processor =
                        ServerGame(game, [board |-> TRUE, chain_size |-> TRUE,
                                          player_data |-> "same", tile_racks |-> "same"],
                                   2, history_messages)
    /\ event = [is_server_game_synchronized |-> TRUE, sync_log |-> << >>,
                server_player_id_to_game_history |-> << >>]

NextOrder ==
    \/ CompareWithServerGame

SpecOrder == InitOrder /\ [][NextOrder]_vars

(***************************************************************************)
(* cron.py: Logs2DB.process_logs and the polling loop of main.  A log file *)
(* is the sequence of its characters, each of one byte: "{", "x" (any      *)
(* other character) and "nl" (the newline); an offset counts the           *)
(* characters before a place.                                              *)
(***************************************************************************)
MaxFiles == 2
MaxFileLen == 4
CronChars == {"{", "x", "nl"}
\* the value of a key the table does not hold yet
KeyValueNone == -1

\* `for line in file` of process_logs from the place position on:
\* dispatched collects the offsets of the lines handed to method_lookup
RECURSIVE Logs2DB_process_logs_loop(_, _, _, _)
Logs2DB_process_logs_loop(file, position, dispatched, len_last_line) ==
    IF position >= Len(file)
    THEN [dispatched |-> dispatched, len_last_line |-> len_last_line, tell |-> Len(file)]
    ELSE LET newlines == {k \in (position + 1)..Len(file) : file[k] = "nl"}
             end == IF newlines = {} THEN Len(file) ELSE Min(newlines)
             line == SubSeq(file, position + 1, end)
         IN  IF line[Len(line)] = "nl"
             THEN Logs2DB_process_logs_loop(
                      file, end,
                      IF line[1] = "{" THEN Append(dispatched, position) ELSE dispatched,
                      len_last_line)
             ELSE Logs2DB_process_logs_loop(file, end, dispatched, Len(line))

\* process_logs on a file opened and sought to offset; returns the offset
\* (file.tell() - len_last_line) and what it dispatched
Logs2DB_process_logs(file, offset) ==
    LET r == Logs2DB_process_logs_loop(file, offset, << >>, 0)
    IN  [offset |-> r.tell - r.len_last_line, dispatched |-> r.dispatched]

\* 0 if kv.value is None else int(kv.value)
KeyValueInt(value) == IF value = KeyValueNone THEN 0 ELSE value

\* `for filename in filenames` of main, from place i on; st holds the
\* locals filename and offset and the records dispatched so far
RECURSIVE MainFilenamesLoop(_, _, _, _, _, _)
MainFilenamesLoop(files, filenames, i, last_filename, last_offset, st) ==
    IF i > Len(filenames)
    THEN st
    ELSE LET filename == filenames[i]
             offset == IF filename = last_filename THEN last_offset ELSE 0
             r == Logs2DB_process_logs(files[filename], offset)
         IN  MainFilenamesLoop(
                 files, filenames, i + 1, last_filename, last_offset,
                 [filename |-> filename,
                  offset |-> r.offset,
                  dispatched |->
                      st.dispatched \o [k \in DOMAIN r.dispatched |->
                                           [filename |-> filename, offset |-> r.dispatched[k]]]])

(***************************************************************************)
(* SpecCron: main polls the directory logs_py while the server writes to   *)
(* its newest log file, character by character, and starts new log files,  *)
(* and while log files are removed from the directory.  Here log_parser    *)
(* holds the directory (files, by their number, and the number of the next *)
(* file), log_processor the two key values 'cron last filename' and 'cron  *)
(* last offset', emitted the records dispatched, each as the file and the  *)
(* offset of its line, and event the filenames of the last iteration.  In  *)
(* SpecCronFair the loop of main keeps running.                            *)
(***************************************************************************)
InitCron ==
    /\ pc = "polling"
    /\ log_parser = [files |-> << >>, next_filename |-> 1]
    /\ log_processor = [last_filename |-> KeyValueNone, last_offset |-> KeyValueNone]
    /\ emitted = << >>
    /\ event = [filenames |-> << >>]

\* one turn of `while True` of main, lines 279-300
MainIteration ==
    /\ pc = "polling"
    /\ LET last_filename == KeyValueInt(log_processor.last_filename)
           last_offset == KeyValueInt(log_processor.last_offset)
           filenames == Sorted({f \in DOMAIN log_parser.files : f >= last_filename})
           st == MainFilenamesLoop(log_parser.files, filenames, 1, last_filename, last_offset,
                                   [filename |-> 0, offset |-> 0, dispatched |-> << >>])
       IN  /\ log_processor' = [last_filename |-> st.filename, last_offset |-> st.offset]
           /\ emitted' = emitted \o st.dispatched
           /\ event' = [filenames |-> filenames]
    /\ UNCHANGED <<pc, log_parser>>

\* the server writes one more character to its log file, the newest
ServerWrites ==
    /\ DOMAIN log_parser.files # {}
    /\ LET filename == Max(DOMAIN log_parser.files)
       IN  /\ filename = log_parser.next_filename - 1
           /\ Len(log_parser.files[filename]) < MaxFileLen
           /\ \E ch \in CronChars :
                  log_parser' = [log_parser EXCEPT !.files[filename] = Append(@, ch)]
    /\ UNCHANGED <<pc, event, log_processor, emitted>>

\* the server starts anew, with a log file of a greater number
ServerStarts ==
    /\ log_parser.next_filename <= MaxFiles
    /\ log_parser' = [files |-> Put(log_parser.files, log_parser.next_filename, << >>),
                      next_filename |-> log_parser.next_filename + 1]
    /\ UNCHANGED <<pc, event, log_processor, emitted>>

\* a log file is taken out of the directory
LogFileRemoved ==
    /\ \E filename \in DOMAIN log_parser.files :
           log_parser' = [log_parser EXCEPT !.files = Del(@, filename)]
    /\ UNCHANGED <<pc, event, log_processor, emitted>>

NextCron ==
    \/ MainIteration
    \/ ServerWrites
    \/ ServerStarts
    \/ LogFileRemoved

SpecCron == InitCron /\ [][NextCron]_vars
SpecCronFair == SpecCron /\ WF_vars(MainIteration)

(***************************************************************************)
(* Notions the properties are stated in.                                   *)
(***************************************************************************)
Range(seq) == {seq[i] : i \in DOMAIN seq}
\* the step yields an event of LogParser.go to LogProcessor.go
Yields == event' # event
\* ... and the handler of the event returns
Handles == event' # event /\ pc' # "fault"
\* the last line LogParser.go read is the one it yielded last
EventIsCurrent == event.line_number = log_parser.line_number
ConnectedClientIds(lp) == OD_Keys(lp.client_id_to_username)
OpenGameIds(lp) == OD_Keys(lp.game_id_to_game)
OpenGames == Range(OD_Values(log_processor.game_id_to_game))
OpenOids == {game.oid : game \in OpenGames}
TimesEmitted(oid) == Cardinality({i \in DOMAIN emitted : emitted[i].oid = oid})

(***************************************************************************)
(* C1.  Whatever the lines of the file, LogProcessor.go reads all of them  *)
(* and reaches its end-of-stream loop: no exception leaves it.             *)
(***************************************************************************)
C1_NoUncaughtFault == ~(pc = "fault" /\ ~log_parser.raised)

(***************************************************************************)
(* C2.  A batch of commands to a client never ends the run, and whatever   *)
(* commands of the batch raised, every command after them is carried out:  *)
(* a later SetGamePlayerJoin routes its client, and a later SetTile,       *)
(* RemoveTile or SetGameBoardCell that does not raise itself leaves its    *)
(* rack slot or board cell as it sets it (no command after it in the batch *)
(* touching the same routing, slot or cell).                               *)
(***************************************************************************)
RoutingCommands ==
    {"SetGamePlayerJoin", "SetGamePlayerRejoin", "SetGamePlayerLeave", "SetGamePlayerClientId",
     "SetGameWatcherClientId", "ReturnWatcherToLobby"}
NoLater(commands, j, codes) == \A k \in DOMAIN commands : k > j => commands[k][1] \notin codes

C2_LaterCommandsApplied ==
    [][(Yields /\ event'.line_type = "command_to_client")
         => LET client_id == event'.parse_line_data[1][1]
                commands == event'.parse_line_data[2]
                lp1 == log_processor'
                game1 == GameOfClient(lp1, client_id)
                Applied(j) == j \notin lp1.printed_tracebacks /\ NoLater(commands, j, RoutingCommands)
            IN  /\ pc' = "reading"
                /\ lp1.printed_tracebacks \subseteq DOMAIN commands
                /\ \A j \in DOMAIN commands :
                       /\ (commands[j][1] = "SetGamePlayerJoin" /\ Applied(j))
                              => /\ commands[j][4] \in DOMAIN lp1.client_id_to_game_id
                                 /\ lp1.client_id_to_game_id[commands[j][4]] = commands[j][2]
                       /\ (commands[j][1] = "SetGameBoardCell" /\ Applied(j)
                             /\ NoLater(commands, j, {"SetGameBoardCell"}))
                              => game1.board[<<commands[j][2], commands[j][3]>>] = commands[j][4]
                       /\ (commands[j][1] = "SetTile" /\ Applied(j)
                             /\ NoLater(commands, j, {"SetTile", "RemoveTile", "SetGameBoardCell"}))
                              => game1.tile_racks[PlayerOfClient(lp1, game1, client_id)][commands[j][2]]
                                     = <<commands[j][3], commands[j][4]>>
                       /\ (commands[j][1] = "RemoveTile" /\ Applied(j)
                             /\ NoLater(commands, j, {"SetTile", "RemoveTile", "SetGameBoardCell"}))
                              => game1.tile_racks[PlayerOfClient(lp1, game1, client_id)][commands[j][2]]
                                     = NoTile]_vars

\* a batch has been handled in which a command raised and a command after
\* it did not
C2_Witness ==
    /\ pc = "reading"
    /\ EventIsCurrent
    /\ event.line_type = "command_to_client"
    /\ \E i \in log_processor.printed_tracebacks :
           \E j \in DOMAIN event.parse_line_data[2] :
               j > i /\ j \notin log_processor.printed_tracebacks

(***************************************************************************)
(* C3.  Every Game created is yielded exactly once: a game that is no      *)
(* longer open has been yielded (with expired set), an open game is        *)
(* yielded when LogProcessor.go ends and not before, and the game a        *)
(* game-expired line names is the last one yielded once the line is        *)
(* handled.                                                                *)
(***************************************************************************)
C3_EveryGameEmittedOnce ==
    /\ \A oid \in 1..log_processor.games_created :
           TimesEmitted(oid) = IF oid \in OpenOids /\ pc # "done" THEN 0 ELSE 1
    /\ \A i \in DOMAIN emitted : emitted[i].expired <=> emitted[i].oid \notin OpenOids
    /\ (pc = "reading" /\ EventIsCurrent /\ event.line_type = "game_expired")
           => /\ emitted # << >>
              /\ emitted[Len(emitted)].game_id = event.parse_line_data[1]
              /\ emitted[Len(emitted)].expired

\* a run that has ended, having yielded an expired game and then an open one
C3_Witness ==
    /\ pc = "done"
    /\ Len(emitted) >= 2
    /\ emitted[1].expired
    /\ ~emitted[Len(emitted)].expired

FlushLineTypes == {"blank_line", "connection_made", "error"}

C5_LastEventIsBlankLine ==
    /\ (pc \in {"end_of_stream", "done"} \/ log_parser.raised)
           => event.line_type = "blank_line"
    /\ (pc \in {"end_of_stream", "done"} /\ log_parser.handled_line_type # "blank_line")
           => /\ event.line = BlankLine
              /\ event.line_number = log_parser.line_number + 1

(***************************************************************************)
(* C6.  The first connection_made line is yielded and reading goes on; the *)
(* second one is not yielded and changes nothing, and after it no line is  *)
(* read: the only event that follows is the synthesized blank line.        *)
(***************************************************************************)
C6_SecondConnectionMadeStops ==
    [][/\ (log_parser.connection_made_count = 0 /\ log_parser'.connection_made_count = 1)
              => /\ Yields
                 /\ event'.line_type = "connection_made"
                 /\ pc' \in {"reading", "fault"}
       /\ (log_parser.connection_made_count = 1 /\ log_parser'.connection_made_count = 2)
              => /\ pc' = "eof"
                 /\ UNCHANGED <<event, log_processor, emitted>>
       /\ log_parser.connection_made_count = 2
              => /\ log_parser' = log_parser
                 /\ Yields => /\ event'.line_type = "blank_line"
                              /\ event'.line = BlankLine
                              /\ event'.line_number = log_parser.line_number + 1]_vars

\* a run ended by the second connection_made line
C6_Witness ==
    /\ pc = "done"
    /\ log_parser.connection_made_count = 2
    /\ event.line_type = "blank_line"
    /\ event.line_number = log_parser.line_number + 1

(***************************************************************************)
(* C7.  A structured entry with a 'game-id' creates a Game exactly when    *)
(* its lookup key (external-game-id when present, else game-id) has no     *)
(* open game, and otherwise keeps the Game the key has; the other games    *)
(* stay as they are.  The open games change in no other way but by a       *)
(* game-expired line, which closes the game it names: so the open games    *)
(* are those of the keys seen since their last expiry.                     *)
(***************************************************************************)
C7_GameCreatedOncePerKey ==
    [][LET lp == log_processor
           lp1 == log_processor'
           entry == event'.parse_line_data[1]
           key == IF "external-game-id" \in DOMAIN entry
                  THEN entry["external-game-id"] ELSE entry["game-id"]
       IN  /\ (Yields /\ event'.line_type = "log" /\ "game-id" \in DOMAIN entry)
                  => /\ OpenGameIds(lp1) = OpenGameIds(lp) \cup {key}
                     /\ Len(lp1.game_id_to_game) = Cardinality(OpenGameIds(lp1))
                     /\ IF key \in OpenGameIds(lp)
                        THEN /\ lp1.games_created = lp.games_created
                             /\ OD_Get(lp1.game_id_to_game, key).oid = OD_Get(lp.game_id_to_game, key).oid
                             /\ OD_Get(lp1.game_id_to_game, key).internal_game_id
                                    = OD_Get(lp.game_id_to_game, key).internal_game_id
                        ELSE /\ lp1.games_created = lp.games_created + 1
                             /\ OD_Get(lp1.game_id_to_game, key).oid = lp1.games_created
                             /\ OD_Get(lp1.game_id_to_game, key).game_id = key
                             /\ OD_Get(lp1.game_id_to_game, key).internal_game_id = entry["game-id"]
                     /\ \A g \in OpenGameIds(lp) \ {key} :
                            OD_Get(lp1.game_id_to_game, g) = OD_Get(lp.game_id_to_game, g)
           /\ (Handles /\ event'.line_type = "game_expired")
                  => OpenGameIds(lp1) = OpenGameIds(lp) \ {event'.parse_line_data[1]}
           /\ ~(Yields /\ event'.line_type \in {"log", "game_expired"})
                  => lp1.game_id_to_game = lp.game_id_to_game]_vars

\* an entry with an external game id has been handled whose game-id is not
\* the one its game was created with
C7_Witness ==
    /\ pc = "reading"
    /\ EventIsCurrent
    /\ event.line_type = "log"
    /\ "external-game-id" \in DOMAIN event.parse_line_data[1]
    /\ "game-id" \in DOMAIN event.parse_line_data[1]
    /\ OD_Has(log_processor.game_id_to_game, event.parse_line_data[1]["external-game-id"])
    /\ OD_Get(log_processor.game_id_to_game, event.parse_line_data[1]["external-game-id"]).internal_game_id
           # event.parse_line_data[1]["game-id"]

(***************************************************************************)
(* C8.  In every game, open or yielded, username_to_player_id and          *)
(* player_id_to_username are inverse of each other: u is mapped to p       *)
(* exactly when p is mapped to u.                                          *)
(***************************************************************************)
C8_PlayerMapsAreInverse ==
    \A game \in OpenGames \cup Range(emitted) :
        /\ \A u \in DOMAIN game.username_to_player_id :
               /\ OD_Has(game.player_id_to_username, game.username_to_player_id[u])
               /\ OD_Get(game.player_id_to_username, game.username_to_player_id[u]) = u
        /\ \A p \in OD_Keys(game.player_id_to_username) :
               /\ OD_Get(game.player_id_to_username, p) \in DOMAIN game.username_to_player_id
               /\ game.username_to_player_id[OD_Get(game.player_id_to_username, p)] = p

(***************************************************************************)
(* C9.  A DoGameAction of client c appends [player, payload] to the        *)
(* actions of the game c is routed to when that game is open and the       *)
(* username of c is that of a player of it, whatever the game id, and      *)
(* leaves the other games as they are; in every other case it leaves all   *)
(* games as they are.                                                      *)
(***************************************************************************)
C9_ActionAppendedIffRoutedAndMapped ==
    [][(Yields /\ event'.line_type = "command_to_server"
          /\ event'.parse_line_data[2][1] = "DoGameAction")
         => LET lp == log_processor
                lp1 == log_processor'
                c == event'.parse_line_data[1]
                command == event'.parse_line_data[2]
                routed == ClientHasGame(lp, c)
                mapped == routed /\ ClientHasPlayer(lp, GameOfClient(lp, c), c)
            IN  IF mapped
                THEN LET game_id == lp.client_id_to_game_id[c]
                         game == GameOfClient(lp, c)
                     IN  lp1.game_id_to_game =
                             OD_Put(lp.game_id_to_game, game_id,
                                    [game EXCEPT !.actions =
                                        Append(@, <<PlayerOfClient(lp, game, c), Tail(command)>>)])
                ELSE lp1.game_id_to_game = lp.game_id_to_game]_vars

(***************************************************************************)
(* C10.  When the last command of a batch is the only SetGameBoardCell of  *)
(* it, the batch routes no client, and the command sets a cell (x, y) that *)
(* was empty in the game of the client, then afterwards (x, y) is in       *)
(* played_tiles_order of the game and in no slot of any of its tile racks; *)
(* and a game is yielded with the played_tiles_order and tile_racks it had *)
(* when it expired.                                                        *)
(***************************************************************************)
C10_PlayedTileLeavesRacks ==
    [][/\ (Yields /\ event'.line_type = "command_to_client")
            => LET lp == log_processor
                   client_id == event'.parse_line_data[1][1]
                   commands == event'.parse_line_data[2]
                   last == commands[Len(commands)]
                   tile == <<last[2], last[3]>>
                   game1 == GameOfClient(log_processor', client_id)
               IN  (/\ last[1] = "SetGameBoardCell"
                    /\ \A k \in 1..(Len(commands) - 1) :
                           commands[k][1] \notin RoutingCommands \cup {"SetGameBoardCell"}
                    /\ tile \in Coordinates
                    /\ ClientHasGame(lp, client_id)
                    /\ GameOfClient(lp, client_id).board[tile] = GameBoardTypeNothing)
                   => /\ tile \in Range(game1.played_tiles_order)
                      /\ \A r \in DOMAIN game1.tile_racks :
                             \A i \in DOMAIN game1.tile_racks[r] : game1.tile_racks[r][i] # tile
       /\ (Handles /\ event'.line_type = "game_expired")
            => LET game == OD_Get(log_processor.game_id_to_game, event'.parse_line_data[1])
                   shown == emitted'[Len(emitted')]
               IN  /\ Len(emitted') = Len(emitted) + 1
                   /\ shown.played_tiles_order = game.played_tiles_order
                   /\ shown.tile_racks = game.tile_racks]_vars


(***************************************************************************)
(* C11, as the specification has it.  A batch of one SetTile(slot, tile)   *)
(* to a client that has a game and a player in it: a slot never occupied   *)
(* takes the tile as its initial-rack entry and the tile joins             *)
(* tile_rack_tiles; a slot occupied before that holds another tile now     *)
(* has the tile appended to additional_tile_rack_tiles_order; either way   *)
(* the slot of tile_racks holds the tile, and no initial-rack entry that   *)
(* is set ever changes.                                                    *)
(***************************************************************************)
IsSetTileBatch ==
    /\ Yields
    /\ event'.line_type = "command_to_client"
    /\ Len(event'.parse_line_data[2]) = 1
    /\ event'.parse_line_data[2][1][1] = "SetTile"
    /\ ClientHasGame(log_processor, event'.parse_line_data[1][1])
    /\ ClientHasPlayer(log_processor, GameOfClient(log_processor, event'.parse_line_data[1][1]),
                       event'.parse_line_data[1][1])

InitialRackEntriesStay ==
    \A g \in OpenGameIds(log_processor) \cap OpenGameIds(log_processor') :
        LET game == OD_Get(log_processor.game_id_to_game, g)
            game1 == OD_Get(log_processor'.game_id_to_game, g)
        IN  \A p \in DOMAIN game.initial_tile_racks :
                \A i \in DOMAIN game.initial_tile_racks[p] :
                    game.initial_tile_racks[p][i] # NoTile
                        => game1.initial_tile_racks[p][i] = game.initial_tile_racks[p][i]

C11_SetTileAppendsDifferentTile ==
    [][/\ InitialRackEntriesStay
       /\ IsSetTileBatch
            => LET client_id == event'.parse_line_data[1][1]
                   command == event'.parse_line_data[2][1]
                   slot == command[2]
                   tile == <<command[3], command[4]>>
                   game == GameOfClient(log_processor, client_id)
                   game1 == GameOfClient(log_processor', client_id)
                   p == PlayerOfClient(log_processor, game, client_id)
               IN  /\ game1.tile_racks[p][slot] = tile
                   /\ game.initial_tile_racks[p][slot] = NoTile
                        => /\ game1.initial_tile_racks[p][slot] = tile
                           /\ tile \in game1.tile_rack_tiles
                   /\ (game.initial_tile_racks[p][slot] # NoTile
                         /\ game.tile_racks[p][slot] \notin {NoTile, tile})
                        => game1.additional_tile_rack_tiles_order
                               = Append(game.additional_tile_rack_tiles_order, tile)]_vars

(***************************************************************************)
(* C11, amended.  As above, but a tile put in a slot occupied before is    *)
(* appended to additional_tile_rack_tiles_order exactly when it is not in  *)
(* tile_rack_tiles yet (no slot of the game has held it), and it joins     *)
(* tile_rack_tiles then; a tile seen before is not appended, and a slot    *)
(* taking its first tile appends nothing.                                  *)
(***************************************************************************)
C11_SetTileAppendsUnseenTile ==
    [][/\ InitialRackEntriesStay
       /\ IsSetTileBatch
            => LET client_id == event'.parse_line_data[1][1]
                   command == event'.parse_line_data[2][1]
                   slot == command[2]
                   tile == <<command[3], command[4]>>
                   game == GameOfClient(log_processor, client_id)
                   game1 == GameOfClient(log_processor', client_id)
                   p == PlayerOfClient(log_processor, game, client_id)
               IN  /\ game1.tile_racks[p][slot] = tile
                   /\ game1.tile_rack_tiles = game.tile_rack_tiles \cup {tile}
                   /\ game.initial_tile_racks[p][slot] = NoTile
                        => /\ game1.initial_tile_racks[p][slot] = tile
                           /\ game1.additional_tile_rack_tiles_order
                                  = game.additional_tile_rack_tiles_order
                   /\ game.initial_tile_racks[p][slot] # NoTile
                        => game1.additional_tile_rack_tiles_order
                               = IF tile \in game.tile_rack_tiles
                                 THEN game.additional_tile_rack_tiles_order
                                 ELSE Append(game.additional_tile_rack_tiles_order, tile)]_vars

\* a SetTile has put in a slot occupied before a tile that it did not hold
\* and that another slot had held: the tile was not appended
C11_Witness ==
    /\ pc = "reading"
    /\ EventIsCurrent
    /\ event.line_type = "command_to_client"
    /\ Len(event.parse_line_data[2]) = 1
    /\ event.parse_line_data[2][1][1] = "SetTile"
    /\ ClientHasGame(log_processor, 0)
    /\ LET command == event.parse_line_data[2][1]
           tile == <<command[3], command[4]>>
           game == GameOfClient(log_processor, 0)
       IN  /\ ClientHasPlayer(log_processor, game, 0)
           /\ game.tile_racks[PlayerOfClient(log_processor, game, 0)][command[2]] = tile
           /\ game.initial_tile_racks[PlayerOfClient(log_processor, game, 0)][command[2]]
                  \notin {NoTile, tile}
           /\ tile \notin Range(game.additional_tile_rack_tiles_order)


(***************************************************************************)
(* C12, as the specification has it.  A batch of one AddGameHistoryMessage *)
(* or AddGameHistoryMessages command that does not raise: the history of   *)
(* every username is the one before, extended by the delivered messages    *)
(* (a DrewPositionTile message naming its player by username) when a       *)
(* client of the command is a player of that username, and else unchanged. *)
(***************************************************************************)
IsHistoryBatch ==
    /\ Yields
    /\ event'.line_type = "command_to_client"
    /\ Len(event'.parse_line_data[2]) = 1
    /\ event'.parse_line_data[2][1][1] \in {"AddGameHistoryMessage", "AddGameHistoryMessages"}
    /\ log_processor'.printed_tracebacks = {}

\* the messages of the command, as they are to be recorded for the game
DeliveredMessages(game, command) ==
    LET messages == IF command[1] = "AddGameHistoryMessage" THEN <<Tail(command)>> ELSE command[2]
    IN  [k \in DOMAIN messages |->
            IF messages[k][1] = "DrewPositionTile" /\ messages[k][2][1] = "int"
            THEN [messages[k] EXCEPT
                     ![2] = <<"str", OD_Get(game.player_id_to_username, messages[k][2][2])>>]
            ELSE messages[k]]

\* the clients of client_ids that are players named username of game g
Addressees(lp, client_ids, g, username) ==
    {i \in DOMAIN client_ids :
        /\ client_ids[i] \in DOMAIN lp.client_id_to_game_id
        /\ lp.client_id_to_game_id[client_ids[i]] = g
        /\ OD_Has(lp.client_id_to_username, client_ids[i])
        /\ OD_Get(lp.client_id_to_username, client_ids[i]) = username
        /\ username \in DOMAIN OD_Get(lp.game_id_to_game, g).username_to_player_id}

C12_HistoriesAreAppendOnly ==
    [][IsHistoryBatch
         => LET client_ids == event'.parse_line_data[1]
                command == event'.parse_line_data[2][1]
            IN  \A g \in OpenGameIds(log_processor) :
                    LET game == OD_Get(log_processor.game_id_to_game, g)
                        game1 == OD_Get(log_processor'.game_id_to_game, g)
                    IN  \A username \in DOMAIN game.username_to_game_history :
                            game1.username_to_game_history[username] =
                                IF Addressees(log_processor, client_ids, g, username) # {}
                                THEN game.username_to_game_history[username]
                                         \o DeliveredMessages(game, command)
                                ELSE game.username_to_game_history[username]]_vars

(***************************************************************************)
(* C12, amended.  AddGameHistoryMessage appends its message to the history *)
(* of each player it is delivered to; AddGameHistoryMessages replaces the  *)
(* history of each player it is delivered to by its messages, in order,    *)
(* whatever the history held; the histories of the usernames that are not  *)
(* addressed, or that are watchers, do not change.                         *)
(***************************************************************************)
C12_HistoryAppendedOrReplaced ==
    [][IsHistoryBatch
         => LET client_ids == event'.parse_line_data[1]
                command == event'.parse_line_data[2][1]
            IN  \A g \in OpenGameIds(log_processor) :
                    LET game == OD_Get(log_processor.game_id_to_game, g)
                        game1 == OD_Get(log_processor'.game_id_to_game, g)
                    IN  /\ DOMAIN game1.username_to_game_history = DOMAIN game.username_to_game_history
                        /\ \A username \in DOMAIN game.username_to_game_history :
                            game1.username_to_game_history[username] =
                                IF Addressees(log_processor, client_ids, g, username) = {}
                                THEN game.username_to_game_history[username]
                                ELSE IF command[1] = "AddGameHistoryMessage"
                                THEN game.username_to_game_history[username]
                                         \o DeliveredMessages(game, command)
                                ELSE DeliveredMessages(game, command)]_vars

\* a list of messages has been delivered to the player alice after a single
\* message was: her history is the list
C12_Witness ==
    /\ pc = "reading"
    /\ EventIsCurrent
    /\ event.line_type = "command_to_client"
    /\ event.parse_line_data[2][1][1] = "AddGameHistoryMessages"
    /\ event.parse_line_data[1] = <<0>>
    /\ event.line_number = 5
    /\ log_processor.printed_tracebacks = {}
    /\ ClientHasGame(log_processor, 0)
    /\ LET game == GameOfClient(log_processor, 0)
       IN  /\ "alice" \in DOMAIN game.username_to_game_history
           /\ game.username_to_game_history["alice"]
                  = DeliveredMessages(game, event.parse_line_data[2][1])


(***************************************************************************)
(* C13.  In the batch LogParser._handle_command_to_client returns, no      *)
(* SetGamePlayer* command comes after a SetGameBoardCell command.          *)
(***************************************************************************)
C13_NoSetGamePlayerAfterBoardCell ==
    event.line_type = "command_to_client"
        => LET commands == event.parse_line_data[2]
           IN  \A i, j \in DOMAIN commands :
                   i < j => ~(/\ commands[i][1] = "SetGameBoardCell"
                              /\ commands[j][1] \in EnumSetGamePlayer)

(***************************************************************************)
(* C14.  The batch returned for a batch of the file: re-ordering it again  *)
(* changes nothing; it is the batch of the file when that holds no         *)
(* SetGameBoardCell, no SetGamePlayer*, or a SetGamePlayer* before its     *)
(* first SetGameBoardCell; it holds every command as often as the batch of *)
(* the file does; and it is the commands from the first to the last        *)
(* SetGamePlayer* in their order, followed by the other commands in their  *)
(* order.                                                                  *)
(***************************************************************************)
Occurrences(commands, command) == Cardinality({i \in DOMAIN commands : commands[i] = command})
\* the entries of commands whose index is in indexes, in their order
RECURSIVE Restricted(_, _)
Restricted(commands, indexes) ==
    IF commands = << >>
    THEN << >>
    ELSE LET front == Restricted(SubSeq(commands, 1, Len(commands) - 1), indexes)
         IN  IF Len(commands) \in indexes THEN Append(front, commands[Len(commands)]) ELSE front

LateTimestamp ==
    \A key \in DOMAIN log_parser.lookups_changes : log_parser.log_timestamp > key

\* C15: for a log timestamp later than every snapshot key of the change
\* table, Enums.get_translations returns an empty table, and translate
\* leaves every command code and every FatalError error code of every batch
\* as it was.
C15_LateTimestampTranslatesNothing ==
    (pc # "new" /\ LateTimestamp)
        => /\ DOMAIN log_parser.enums_translations = {}
           /\ ~event.raised
           /\ event.translated = event.commands

\* a batch of two commands or more, one of them a FatalError, has been given
\* to the translator of a log later than every snapshot
C15_Witness ==
    /\ pc = "translated"
    /\ LateTimestamp
    /\ Len(event.commands) >= 2
    /\ \E i \in DOMAIN event.commands :
          event.commands[i][1] = log_parser.commands_to_client_translator.fatal_error
    /\ event.translated = event.commands

\* the keys of the snapshots at or after the log's timestamp that change family
ChangingKeys(family) ==
    {key \in DOMAIN log_parser.lookups_changes :
        /\ key >= log_parser.log_timestamp
        /\ family \in DOMAIN log_parser.lookups_changes[key]}

\* C16: get_translations(t) has a mapping for a family exactly when some
\* snapshot with key >= t changes the family; the mapping is that of the
\* oldest such snapshot (old index i goes to the current index of the name
\* the snapshot has at i); distinct old indexes go to distinct current
\* indexes; with the table of the source and
\* 1409233190 < t <= 1417176502, command codes are translated and error
\* codes are left as logged.
C16_TranslationsOfOldestSnapshot ==
    pc # "new" =>
        /\ \A family \in {"CommandsToClient", "Errors"} :
              family \in DOMAIN log_parser.enums_translations <=> ChangingKeys(family) # {}
        /\ \A family \in DOMAIN log_parser.enums_translations :
              LET mapping == log_parser.enums_translations[family]
                  entries == log_parser.lookups_changes[Min(ChangingKeys(family))][family]
              IN  /\ DOMAIN mapping = 0..(Len(entries) - 1)
                  /\ \A index \in DOMAIN mapping :
                        log_parser.lookups[family][mapping[index] + 1] = entries[index + 1]
                  /\ \A i, j \in DOMAIN mapping : mapping[i] = mapping[j] => i = j
        /\ ( /\ log_parser.lookups_changes = Enums_lookups_changes
             /\ SnapshotKeyErrors < log_parser.log_timestamp
             /\ log_parser.log_timestamp <= SnapshotKeyCommandsToClient
             /\ ~event.raised )
           => \A i \in DOMAIN event.commands :
                 /\ event.translated[i][1] =
                        log_parser.enums_translations["CommandsToClient"][event.commands[i][1]]
                 /\ event.translated[i][2] = event.commands[i][2]

\* a log between the two snapshots of the source's table: a batch with a
\* FatalError has had a command code changed; and a log older than two
\* snapshots that change the error codes
C16_Witness ==
    /\ pc = "translated"
    /\ log_parser.lookups_changes = Enums_lookups_changes
    /\ log_parser.log_timestamp = SnapshotKeyCommandsToClient
    /\ ~event.raised
    /\ \E i \in DOMAIN event.commands :
          /\ event.translated[i][1] # event.commands[i][1]
          /\ event.translated[i][1] = log_parser.commands_to_client_translator.fatal_error


(***************************************************************************)
(* Lines with a malformed payload (SpecMalformed).                         *)
(***************************************************************************)
\* the games and the identity and routing maps of the reconstructor
GamesAndMaps(lp) ==
    <<lp.game_id_to_game, lp.client_id_to_username, lp.username_to_client_id,
      lp.client_id_to_game_id>>

\* the line matches the pattern of a command to a client, of a command to
\* the server or of a structured entry, and its payload is not JSON
MalformedPayload(line) ==
    \/ line.shape = "disconnect_after_error"
    \/ /\ line.shape \in {"command_to_client", "command_to_server", "log"}
       /\ line.decodes_to = "invalid_json"

\* C17, as the specification has it: every line shaped like a command to a
\* client, a command to the server or a structured entry whose payload is
\* not well-formed JSON yields no typed event, the lines after it are still
\* read, and the games and maps of the reconstructor are as before.
C17_MalformedPayloadYieldsNoTypedEvent ==
    [][(Yields /\ pc = "reading" /\ MalformedPayload(event'.line))
        => /\ event'.line_type = None
           /\ pc' = "reading"
           /\ GamesAndMaps(log_processor') = GamesAndMaps(log_processor)]_vars

\* C17: a line shaped like a command to a client, a command to the server
\* or a structured entry whose payload is not well-formed JSON yields an
\* event of line type None unless it is a line "<n> -> <id> disconnect",
\* which yields a disconnect event of client <id>; in both cases the lines
\* after it are still read and the games and maps of the reconstructor are
\* as before.  No line of these files makes LogParser.go raise.
C17_MalformedPayloadLeavesStateAlone ==
    [][/\ ~log_parser'.raised
       /\ (Yields /\ pc = "reading" /\ MalformedPayload(event'.line))
        => /\ IF event'.line.shape = "disconnect_after_error"
              THEN /\ event'.line_type = "disconnect"
                   /\ event'.parse_line_data = <<event'.line.client_id>>
              ELSE /\ event'.line_type = None
                   /\ log_processor' = log_processor
           /\ pc' = "reading"
           /\ log_parser'.line_number = log_parser.line_number + 1
           /\ GamesAndMaps(log_processor') = GamesAndMaps(log_processor)
           /\ emitted' = emitted]_vars

\* a malformed command to a client has just been read while two clients
\* were connected and a game was open
C17_Witness ==
    /\ pc = "reading"
    /\ EventIsCurrent
    /\ event.line = InvalidCommandToClientLine("invalid_json")
    /\ event.line_type = None
    /\ OpenGameIds(log_processor) # {}
    /\ Cardinality(ConnectedClientIds(log_processor)) = 2


(***************************************************************************)
(* A last line without the final newline (SpecUnterminated).               *)
(***************************************************************************)
\* the step that reads a last line that lacks the '\n': the one step that
\* takes a line and ends the file, but for the second connection_made line
UnterminatedLineRead ==
    /\ pc = "reading"
    /\ pc' \in {"eof", "fault"}
    /\ log_parser'.line_number = log_parser.line_number + 1
    /\ ~(pc' = "eof" /\ log_parser'.handled_line_type = "connection_made")

\* C18: a final line of the input that is not terminated by a newline is
\* not turned into an event by LogParser.go: whatever its text, no typed
\* event is yielded for it and the reconstructor, with the games it has
\* yielded, is as before.
C18_UnterminatedLineIsNoEvent ==
    [][UnterminatedLineRead
        => /\ event' # event => event'.line_type = None
           /\ log_processor' = log_processor
           /\ emitted' = emitted]_vars


(***************************************************************************)
(* The inferred tile bag (SpecTileBag).                                    *)
(***************************************************************************)
\* C19: for every game whose histories hold draw and replace messages for
\* board coordinates only, also one with an entry in tile_bag_tweaks,
\* _get_initial_tile_bag returns a list of BoardWidth * BoardHeight = 108
\* entries in which every coordinate of the board occurs exactly once.
C19_TileBagIsPermutationOfBoard ==
    \A i \in DOMAIN event.returned :
        /\ ~event.returned[i].raised
        /\ Len(event.returned[i].tile_bag) = BoardWidth * BoardHeight
        /\ {event.returned[i].tile_bag[j] : j \in DOMAIN event.returned[i].tile_bag} = Coordinates

\* C20: two calls of _get_initial_tile_bag on a game return the same list
\* (or both raise), whatever state other games have left the generator of
\* module random in between the calls.
C20_TileBagIsReproducible ==
    Len(event.returned) = 2 => event.returned[1] = event.returned[2]

\* a game with an entry in tile_bag_tweaks that was applied, and without a
\* logged tile bag, was given to _get_initial_tile_bag twice; the generator
\* was not in the same state at the two calls
C20_Witness ==
    /\ Len(event.returned) = 2
    /\ emitted[1].tile_bag.is_none
    /\ emitted[1].internal_game_id = 43
    /\ ~event.returned[1].raised
    /\ event.returned[1].tile_bag[BoardWidth * BoardHeight - 34] = <<1, 5>>
    /\ Len(emitted[1].username_to_game_history["alice"]) > 20


(***************************************************************************)
(* The replay of a game on the simulation (SpecReplay).                    *)
(***************************************************************************)
\* C21: whenever an entry of the game carried a 'tile-bag' field, whatever
\* its length, the empty list included, make_server_game gives the
\* simulation that logged list, in the logged order.
C21_LoggedTileBagIsGivenAsLogged ==
    (pc = "made" /\ ~emitted[1].tile_bag.is_none /\ ~event.raised)
        => /\ event.calls[1].call = "Game"
           /\ event.calls[1].tile_bag = emitted[1].tile_bag.list


(***************************************************************************)
(* The order of the inferred tile bag (SpecTileBag).                       *)
(***************************************************************************)
\* the tiles the histories of the game show, player by player (in the
\* order of player_id_to_username) and turn by turn
ObservedTurns(game) ==
    LET usernames == OD_Values(game.player_id_to_username)
    IN  [p \in DOMAIN usernames |->
            TurnByTurnTiles(game.username_to_game_history[usernames[p]], 1, << >>, << >>)]
\* the places <<turn, player, place in the turn>> at which tile is shown
Occurrences_of(turns, tile) ==
    {<<t, p, j>> \in UNION {UNION {{<<t1, p1, j1>> : j1 \in DOMAIN turns[p1][t1]} :
                                      t1 \in DOMAIN turns[p1]} : p1 \in DOMAIN turns} :
        turns[p][t][j] = tile}
\* place a is taken before place b: an earlier turn; in one turn the player
\* with more tiles in it, the earlier player if they have as many; in one
\* player's turn the earlier place
TakenBefore(turns, a, b) ==
    \/ a[1] < b[1]
    \/ /\ a[1] = b[1]
       /\ a[2] # b[2]
       /\ \/ Len(turns[a[2]][a[1]]) > Len(turns[b[2]][b[1]])
          \/ Len(turns[a[2]][a[1]]) = Len(turns[b[2]][b[1]]) /\ a[2] < b[2]
    \/ a[1] = b[1] /\ a[2] = b[2] /\ a[3] < b[3]
\* the first place at which tile is taken
FirstTaken(turns, tile) ==
    CHOOSE a \in Occurrences_of(turns, tile) :
        \A b \in Occurrences_of(turns, tile) \ {a} : TakenBefore(turns, a, b)
ObservedTiles(turns) ==
    UNION {UNION {{turns[p][t][j] : j \in DOMAIN turns[p][t]} : t \in DOMAIN turns[p]} :
              p \in DOMAIN turns}

\* C22: with no logged tile bag and no entry in tile_bag_tweaks, the bag
\* read from its last entry to its first lists every observed tile once,
\* then the tiles never observed; the observed tiles are in the order of
\* their turn (counted per player between that player's TurnBegan
\* messages), in one turn the tiles of the player with more tiles in it
\* first, in one player's turn as observed; a tile observed again is
\* skipped.
C22_ObservedTilesInDrawOrder ==
    \A i \in DOMAIN event.returned :
        LET game == emitted[1]
            turns == ObservedTurns(game)
            observed == ObservedTiles(turns)
            n == Cardinality(observed)
            draw_order == Reversed(event.returned[i].tile_bag)
        IN  ( /\ game.tile_bag.is_none
              /\ <<game.log_timestamp, game.internal_game_id>> \notin DOMAIN Game_tile_bag_tweaks )
            => /\ ~event.returned[i].raised
               /\ Len(draw_order) = BoardWidth * BoardHeight
               /\ {draw_order[k] : k \in 1..n} = observed
               /\ {draw_order[k] : k \in (n + 1)..Len(draw_order)} = Coordinates \ observed
               /\ \A k \in 1..n : \A l \in (k + 1)..n :
                     TakenBefore(turns, FirstTaken(turns, draw_order[k]),
                                 FirstTaken(turns, draw_order[l]))

\* bob's history shows more tiles than alice's before the first turn, both
\* show the position tiles, and the turns after it have tiles of one player
C22_Witness ==
    /\ Len(event.returned) >= 1
    /\ emitted[1].tile_bag.is_none
    /\ <<emitted[1].log_timestamp, emitted[1].internal_game_id>> \notin DOMAIN Game_tile_bag_tweaks
    /\ LET turns == ObservedTurns(emitted[1])
       IN  /\ Len(turns[1]) >= 3
           /\ Len(turns[2][1]) > Len(turns[1][1])
           /\ Len(turns[1][1]) >= 4
           /\ Reversed(event.returned[1].tile_bag)[1] = turns[2][1][1]


(***************************************************************************)
(* The calls of make_server_game (SpecReplay).                             *)
(***************************************************************************)
\* the usernames of the game-player entries, each at its first appearance
FirstAppearances(entries) ==
    LET first == SelectSeq([i \in DOMAIN entries |-> i],
                     LAMBDA i : /\ entries[i]["_"] = "game-player"
                                /\ \A j \in 1..(i - 1) :
                                      entries[j]["_"] = "game-player"
                                          => entries[j]["username"] # entries[i]["username"])
    IN  [k \in DOMAIN first |-> entries[first[k]]["username"]]
\* the client object make_server_game builds for a player index
ClientOfPlayerIndex(game, player_id) ==
    NewClient(player_id, OD_Get(game.player_id_to_username, player_id))

ComparedPlayers ==
    1..(IF Len(emitted[1].player_id_to_username) < log_processor.num_players
        THEN Len(emitted[1].player_id_to_username) ELSE log_processor.num_players)
\* the history the log showed of player p (counted from 1)
ObservedHistory(p) ==
    emitted[1].username_to_game_history[emitted[1].player_id_to_username[p].v]
\* the messages of the simulation for player p (counted from 1), in the
\* order of history_messages
SimulationHistory(p) ==
    LET for_p == SelectSeq(log_processor.history_messages,
                     LAMBDA e : e.target_player_id.is_none
                                \/ e.target_player_id.player_id = p - 1)
    IN  [k \in DOMAIN for_p |-> for_p[k].message]
IsPrefixOf(s, t) == Len(s) <= Len(t) /\ \A k \in DOMAIN s : s[k] = t[k]
\* sync_log holds the three lines of a difference: head, then both values
LogsDiff(head, first, second) ==
    \E k \in DOMAIN event.sync_log :
        /\ k + 2 <= Len(event.sync_log)
        /\ event.sync_log[k] = head
        /\ event.sync_log[k + 1] = Str(first)
        /\ event.sync_log[k + 2] = Str(second)
LogsHistoryDiffOf(p) ==
    \E k \in DOMAIN event.sync_log :
        event.sync_log[k] = <<"diff for player_id", "player_id_to_game_history", p - 1>>

\* C24: the observed history of a player the simulation has matches exactly
\* when it is a prefix of the simulation's history of that player: then no
\* difference is logged for the player; an observed history that is longer
\* or differs at a place makes the result not synchronized.
C24_HistoryMatchesAsPrefix ==
    pc = "compared"
        => \A p \in ComparedPlayers :
              /\ IsPrefixOf(ObservedHistory(p), SimulationHistory(p)) => ~LogsHistoryDiffOf(p)
              /\ ~IsPrefixOf(ObservedHistory(p), SimulationHistory(p))
                    => ~event.is_server_game_synchronized /\ LogsHistoryDiffOf(p)

\* alice's history is a strict prefix and bob's is longer than the
\* simulation's
C24_Witness ==
    /\ pc = "compared"
    /\ ComparedPlayers = {1, 2}
    /\ ObservedHistory(1) # << >>
    /\ IsPrefixOf(ObservedHistory(1), SimulationHistory(1))
    /\ Len(ObservedHistory(1)) < Len(SimulationHistory(1))
    /\ Len(ObservedHistory(2)) > Len(SimulationHistory(2))
    /\ ~event.is_server_game_synchronized
    /\ ~LogsHistoryDiffOf(1)
    /\ LogsHistoryDiffOf(2)

\* C25: a history message of the simulation whose target is None is in the
\* expected history of every player, one with target p in that of player p
\* alone, and each expected history keeps the order of history_messages.
C25_ExpectedHistoriesByTarget ==
    pc = "compared"
        => /\ Len(event.server_player_id_to_game_history) = log_processor.num_players
           /\ \A p \in 1..log_processor.num_players :
                 event.server_player_id_to_game_history[p] = SimulationHistory(p)

\* the simulation has two players, a message for all and a message for
\* one, and the expected histories differ
C25_Witness ==
    /\ pc = "compared"
    /\ log_processor.num_players = 2
    /\ \E k \in DOMAIN log_processor.history_messages :
          log_processor.history_messages[k].target_player_id.is_none
    /\ \E k \in DOMAIN log_processor.history_messages :
          ~log_processor.history_messages[k].target_player_id.is_none
    /\ Len(event.server_player_id_to_game_history[1]) = 2
    /\ Len(event.server_player_id_to_game_history[2]) = 1

\* the compared values, as the game and the simulation hold them
ObservedScoreRows ==
    [p \in 1..Len(emitted[1].player_id_to_username) |-> emitted[1].score_sheet_players[p - 1]]
SimulationScoreRows ==
    [p \in DOMAIN log_processor.player_data |->
        [c \in 1..8 |-> log_processor.player_data[p][c]]]
ObservedRacks ==
    [p \in 1..Len(emitted[1].player_id_to_username) |-> emitted[1].tile_racks[p - 1]]
SimulationRacks ==
    [p \in DOMAIN log_processor.tile_racks.racks |->
        [i \in 0..(TileRackSize - 1) |->
            IF log_processor.tile_racks.racks[p][i] = << >> THEN NoTile
            ELSE log_processor.tile_racks.racks[p][i][1]]]
BoardDiffers == emitted[1].board # log_processor.x_to_y_to_board_type
ScoreRowsDiffer == ObservedScoreRows # SimulationScoreRows
ChainSizeDiffers == emitted[1].score_sheet_chain_size # log_processor.chain_size
RacksDiffer == log_processor.tile_racks.tracked /\ ObservedRacks # SimulationRacks
RackDiffers(p) == log_processor.tile_racks.tracked /\ ObservedRacks[p] # SimulationRacks[p]
HistoryDiffers(p) == ~IsPrefixOf(ObservedHistory(p), SimulationHistory(p))

C27_EqualValuesAreSynchronized ==
    ( /\ pc = "compared"
      /\ ~BoardDiffers /\ ~ScoreRowsDiffer /\ ~ChainSizeDiffers
      /\ ObservedRacks = SimulationRacks
      /\ Len(emitted[1].player_id_to_username) = log_processor.num_players
      /\ \A p \in ComparedPlayers : ObservedHistory(p) = SimulationHistory(p) )
        => event.is_server_game_synchronized /\ event.sync_log = << >>

\* two players with histories of their own, racks tracked, all equal
C27_Witness ==
    /\ pc = "compared"
    /\ ~BoardDiffers /\ ~ScoreRowsDiffer /\ ~ChainSizeDiffers
    /\ log_processor.tile_racks.tracked /\ ObservedRacks = SimulationRacks
    /\ ComparedPlayers = {1, 2}
    /\ log_processor.num_players = 2
    /\ ObservedHistory(1) = SimulationHistory(1) /\ ObservedHistory(2) = SimulationHistory(2)
    /\ Len(ObservedHistory(1)) = 2 /\ Len(ObservedHistory(2)) = 1
    /\ event.is_server_game_synchronized
    /\ event.sync_log = << >>


(***************************************************************************)
(* The slicer (SpecSlicer).                                                *)
(***************************************************************************)
\* the fields of a game the two runs are compared in
ReconstructedFields(game) ==
    [log_timestamp |-> game.log_timestamp, game_id |-> game.game_id,
     internal_game_id |-> game.internal_game_id, state |-> game.state, mode |-> game.mode,
     max_players |-> game.max_players, board |-> game.board,
     score_sheet_players |-> game.score_sheet_players,
     score_sheet_chain_size |-> game.score_sheet_chain_size,
     tile_racks |-> game.tile_racks, played_tiles_order |-> game.played_tiles_order,
     tile_rack_tiles |-> game.tile_rack_tiles,
     additional_tile_rack_tiles_order |-> game.additional_tile_rack_tiles_order,
     actions |-> game.actions, username_to_game_history |-> game.username_to_game_history,
     expired |-> game.expired]

\* C28: when the file ends with the end of a frame and LogProcessor reads
\* it without an exception, then for every game LogProcessor yields on the
\* file, LogProcessor on the lines of the game log the slicer yields for
\* that game yields a game with the same reconstructed fields.
C28_SlicedLogReconstructsTheSameGame ==
    (pc = "done" /\ log_processor.batch = << >>)
        => LET original == LogProcessor_go(log_parser.lines, 1, NewLogProcessor, << >>)
           IN  ~original.raised
               => \A i \in DOMAIN original.games :
                     \E j \in DOMAIN emitted :
                        /\ emitted[j].internal_game_id = original.games[i].internal_game_id
                        /\ 0 \notin DOMAIN emitted[j].line_number_to_batch
                        /\ LET sliced == LogProcessor_go(
                                             IndividualGameLog_make_game_log_file(emitted[j]),
                                             1, NewLogProcessor, << >>)
                           IN  /\ ~sliced.raised
                               /\ \E k \in DOMAIN sliced.games :
                                     ReconstructedFields(sliced.games[k])
                                         = ReconstructedFields(original.games[i])

\* the lines of the file from line a to line b
FileLines(a, b) == SubSeq(log_parser.lines, a, b)
\* the first and the last line of the frame line k of the file is in; the
\* frame has ended when a blank line follows line k - 1
FrameFirstLine(k) ==
    1 + Max({0} \cup {j \in 1..(k - 1) : log_parser.lines[j].shape = "blank"})
FrameHasEnded(k) == \E j \in k..Len(log_parser.lines) : log_parser.lines[j].shape = "blank"
FrameLastLine(k) == Min({j \in k..Len(log_parser.lines) : log_parser.lines[j].shape = "blank"})
\* the line of the last connect of client c
ConnectLinesOf(c) ==
    {k \in DOMAIN log_parser.lines :
        log_parser.lines[k].shape = "connect" /\ log_parser.lines[k].client_id = c}
\* the game log of open game G holds the frame of line k, whole or without
\* its disconnect lines
HoldsFrameOf(game_log, k) ==
    /\ FrameFirstLine(k) \in DOMAIN game_log.line_number_to_batch
    /\ LET frame == FileLines(FrameFirstLine(k), FrameLastLine(k))
           batch == game_log.line_number_to_batch[FrameFirstLine(k)]
       IN  batch = frame \/ batch = WithoutDisconnectLines(frame)

\* the frame that ends with this step has a disconnect line of client c,
\* who is connected
DisconnectsInThisFrame(c) ==
    /\ pc = "reading" /\ pc' = "reading"
    /\ event'.line_type = "blank_line"
    /\ \E k \in DOMAIN log_processor.delayed_calls : log_processor.delayed_calls[k] = c
    /\ OD_Has(log_processor.client_id_to_username, c)

\* C29: whenever a connected client c is routed to an open game G and the
\* frame of c's connect has ended, the log of G holds that frame (without
\* its disconnect lines when it was copied); and when the frame in which c
\* disconnects ends while G is open, the log of G holds that frame.
C29_ConnectAndDisconnectFramesAreKept ==
    /\ [](pc = "reading"
            => \A c \in DOMAIN log_processor.client_id_to_game_id :
                  LET G == log_processor.client_id_to_game_id[c]
                  IN  ( /\ OD_Has(log_processor.client_id_to_username, c)
                        /\ OD_Has(log_processor.game_id_to_game_log, G)
                        /\ ConnectLinesOf(c) # {}
                        /\ FrameHasEnded(Max(ConnectLinesOf(c))) )
                      => HoldsFrameOf(OD_Get(log_processor.game_id_to_game_log, G),
                                      Max(ConnectLinesOf(c))))
    /\ [][\A c \in ClientIds :
            ( /\ DisconnectsInThisFrame(c)
              /\ c \in DOMAIN log_processor.client_id_to_game_id
              /\ OD_Has(log_processor'.game_id_to_game_log, log_processor.client_id_to_game_id[c]) )
            => LET game_log == OD_Get(log_processor'.game_id_to_game_log,
                                      log_processor.client_id_to_game_id[c])
                   first == log_parser'.line_number - Len(log_processor.batch)
               IN  /\ first \in DOMAIN game_log.line_number_to_batch
                   /\ game_log.line_number_to_batch[first]
                          = Append(log_processor.batch, BlankLine)]_vars

\* the frame whose lines are batch has something of game G: a board, score
\* sheet or tile command to a client routed to G, a join, rejoin, leave or
\* watcher command that names G, or a game action of a player of G
FrameConcerns(m, batch, G) ==
    \E k \in DOMAIN batch :
        \/ /\ batch[k].shape = "command_to_client"
           /\ \E n \in DOMAIN batch[k].commands :
                 LET command == batch[k].commands[n]
                 IN  \/ /\ command[1] \in {"SetGameBoardCell", "SetScoreSheetCell",
                                           "SetScoreSheet", "SetTile"}
                        /\ batch[k].client_ids[1] \in DOMAIN m.client_id_to_game_id
                        /\ m.client_id_to_game_id[batch[k].client_ids[1]] = G
                     \/ /\ command[1] \in {"SetGamePlayerJoin", "SetGamePlayerRejoin",
                                           "SetGamePlayerLeave", "SetGameWatcherClientId"}
                        /\ command[2] = G
        \/ /\ batch[k].shape = "command_to_server"
           /\ batch[k].command[1] = "DoGameAction"
           /\ batch[k].client_id \in DOMAIN m.client_id_to_game_id
           /\ m.client_id_to_game_id[batch[k].client_id] = G
           /\ OD_Has(m.client_id_to_username, batch[k].client_id)
           /\ OD_Get(m.client_id_to_username, batch[k].client_id)
                  \in DOMAIN OD_Get(m.game_id_to_game_log, G).username_to_player_id

\* C30: when a frame ends that has something of an open game G, the frame
\* is in the log of G under the number of its first line.
C30_FrameOfGameIsStored ==
    [][(pc = "reading" /\ pc' = "reading" /\ event'.line_type = "blank_line")
          => \A G \in SlicerGameIds :
                ( /\ OD_Has(log_processor.game_id_to_game_log, G)
                  /\ OD_Has(log_processor'.game_id_to_game_log, G)
                  /\ FrameConcerns(log_processor, log_processor.batch, G) )
                => LET game_log == OD_Get(log_processor'.game_id_to_game_log, G)
                       first == log_parser'.line_number - Len(log_processor.batch)
                   IN  /\ first \in DOMAIN game_log.line_number_to_batch
                       /\ game_log.line_number_to_batch[first]
                              = Append(log_processor.batch, BlankLine)]_vars


\* the game ids of a list that have an open game log
OpenGameIdsOf(m, game_ids) ==
    {game_ids[k] : k \in {k \in DOMAIN game_ids : OD_Has(m.game_id_to_game_log, game_ids[k])}}
IsPrefixOfEmitted ==
    Len(emitted) <= Len(emitted') /\ \A k \in DOMAIN emitted : emitted'[k] = emitted[k]

\* C31: a game log is yielded once: that of a game a 'game expired' line
\* names when the frame of the line ends, every other at the end of the
\* file; what has been yielded is not changed afterwards; and a 'game
\* expired' line for a game without an open log does not end the run.
C31_EveryGameLogIsYieldedOnce ==
    [][/\ IsPrefixOfEmitted
       /\ ( /\ pc = "reading"
            /\ event' # event
            /\ event'.line_type = "blank_line"
            /\ log_processor.delayed_calls = << >>
            /\ ~TruthyId(log_processor.batch_game_id)
                 \/ OD_Has(log_processor.game_id_to_game_log, log_processor.batch_game_id) )
          => LET expired == OpenGameIdsOf(log_processor, log_processor.batch_destroy_game_ids)
             IN  /\ pc' = "reading"
                 /\ Len(emitted') = Len(emitted) + Cardinality(expired)
                 /\ OD_Keys(log_processor'.game_id_to_game_log)
                        = OD_Keys(log_processor.game_id_to_game_log) \ expired
       /\ ( /\ pc = "reading"
            /\ event' = event
            /\ log_processor.batch = << >> )
          => /\ pc' = "done"
             /\ Len(emitted') = Len(emitted) + Len(log_processor.game_id_to_game_log)
             /\ log_processor'.game_id_to_game_log = << >>]_vars


(***************************************************************************)
(* LogProcessor and the slicer side by side (SpecRouting).                 *)
(***************************************************************************)
\* C32: after every event both have read, the IndividualGameLogMaker and
\* the LogProcessor hold the same client_id_to_username,
\* username_to_client_id and client_id_to_game_id.
C32_SlicerMirrorsTheMaps ==
    pc = "reading"
        => /\ emitted.client_id_to_username = log_processor.client_id_to_username
           /\ emitted.username_to_client_id = log_processor.username_to_client_id
           /\ emitted.client_id_to_game_id = log_processor.client_id_to_game_id


(***************************************************************************)
(* Events that leave the games alone (SpecQuiet).                          *)
(***************************************************************************)
GamePlayerFields ==
    {"player_id_to_username", "username_to_player_id", "player_join_order",
     "username_to_game_history"}
RoutingCommandNames ==
    {"SetGamePlayerJoin", "SetGamePlayerRejoin", "SetGamePlayerLeave", "SetGameWatcherClientId",
     "ReturnWatcherToLobby"}
LineIsRead == pc = "reading" /\ event' # event /\ pc' # "fault"
GamePlayerEntryIsRead ==
    /\ LineIsRead
    /\ event'.line_type = "log"
    /\ event'.parse_line_data[1]["_"] = "game-player"
RoutingCommandsAreRead ==
    /\ LineIsRead
    /\ event'.line_type = "command_to_client"
    /\ \A i \in DOMAIN event'.parse_line_data[2] :
           event'.parse_line_data[2][i][1] \in RoutingCommandNames
\* the game the entry names as it was before the entry: the one of the dict,
\* or the one line 552 constructs
GameBeforeEntry(entry) ==
    IF OD_Has(log_processor.game_id_to_game, EntryGameId(entry))
    THEN OD_Get(log_processor.game_id_to_game, EntryGameId(entry))
    ELSE NewGame(log_processor.log_timestamp, EntryGameId(entry), entry["game-id"],
                 log_processor.games_created + 1)
GamePlayerEntryEffect(before, after, entry) ==
    LET player_id == entry["player-id"]
        username == entry["username"]
    IN  /\ \A f \in DOMAIN before \ GamePlayerFields : after[f] = before[f]
        /\ OD_Keys(after.player_id_to_username) = OD_Keys(before.player_id_to_username) \cup {player_id}
        /\ \A p \in OD_Keys(after.player_id_to_username) :
               OD_Get(after.player_id_to_username, p) =
                   IF p = player_id THEN username ELSE OD_Get(before.player_id_to_username, p)
        /\ after.username_to_player_id = Put(before.username_to_player_id, username, player_id)
        /\ after.player_join_order =
               IF \E i \in DOMAIN before.player_join_order : before.player_join_order[i] = username
               THEN before.player_join_order
               ELSE Append(before.player_join_order, username)
        /\ after.username_to_game_history =
               IF username \in DOMAIN before.username_to_game_history
               THEN before.username_to_game_history
               ELSE Put(before.username_to_game_history, username, << >>)

\* C33: a time line and a batch of routing commands (join, rejoin, leave,
\* watcher attach and detach) leave every game as it is, the routing
\* commands changing client_id_to_game_id only; a 'game-player' entry
\* changes, in the game it names, only the two player maps, the join order
\* and the history of the named username, which it makes empty when the
\* username had none, and it leaves every other game as it is.
C33_QuietEventsLeaveTheGames ==
    [][/\ (LineIsRead /\ event'.line_type = "time")
           => log_processor'.game_id_to_game = log_processor.game_id_to_game
       /\ RoutingCommandsAreRead
           => \A f \in DOMAIN log_processor \ {"client_id_to_game_id", "printed_tracebacks"} :
                  log_processor'[f] = log_processor[f]
       /\ GamePlayerEntryIsRead
           => LET entry == event'.parse_line_data[1]
              IN  /\ OpenGameIds(log_processor') = OpenGameIds(log_processor) \cup {EntryGameId(entry)}
                  /\ \A g \in OpenGameIds(log_processor') :
                         IF g = EntryGameId(entry)
                         THEN GamePlayerEntryEffect(GameBeforeEntry(entry),
                                                    OD_Get(log_processor'.game_id_to_game, g), entry)
                         ELSE OD_Get(log_processor'.game_id_to_game, g) =
                                  OD_Get(log_processor.game_id_to_game, g)
                  /\ \A f \in DOMAIN log_processor \
                              {"game_id_to_game", "games_created", "printed_tracebacks"} :
                         log_processor'[f] = log_processor[f]]_vars

\* a 'game-player' entry was read for a username whose history holds a
\* message, in a game with a tile on the board
C33_Witness ==
    /\ pc = "reading"
    /\ event # NoEvent
    /\ event.line_type = "log"
    /\ event.parse_line_data[1]["_"] = "game-player"
    /\ \E g \in OpenGameIds(log_processor) :
           LET game == OD_Get(log_processor.game_id_to_game, g)
               username == event.parse_line_data[1]["username"]
           IN  /\ game.played_tiles_order # << >>
               /\ username \in DOMAIN game.username_to_game_history
               /\ game.username_to_game_history[username] # << >>


(***************************************************************************)
(* The Game objects a 'game expired' line has yielded (SpecBoard).  A Game *)
(* object is known by its oid: the object yielded i-th is, in a later      *)
(* state, the Game of that oid in game_id_to_game when there is one, the   *)
(* only place a handler takes a Game from, and else as it was yielded.     *)
(***************************************************************************)
YieldedObject(lp, i) ==
    IF \E k \in DOMAIN lp.game_id_to_game : lp.game_id_to_game[k].v.oid = emitted[i].oid
    THEN lp.game_id_to_game[CHOOSE k \in DOMAIN lp.game_id_to_game :
                                lp.game_id_to_game[k].v.oid = emitted[i].oid].v
    ELSE emitted[i]

\* C34: no step changes a field of a Game object that was yielded as
\* expired, no handler can reach such an object, and a Game in
\* game_id_to_game under the id of a yielded one is another object.
C34_YieldedGameIsLeftAlone ==
    /\ [](\A i \in DOMAIN emitted :
              emitted[i].expired
                  => /\ YieldedObject(log_processor, i) = emitted[i]
                     /\ \A game \in OpenGames : game.oid # emitted[i].oid)
    /\ [][\A i \in DOMAIN emitted :
              emitted[i].expired
                  => /\ emitted'[i] = emitted[i]
                     /\ YieldedObject(log_processor', i) = YieldedObject(log_processor, i)]_vars

\* a command that needs the game of its client has just faulted, the
\* client being routed to the id of a game yielded as expired
C34_Witness ==
    /\ pc = "reading"
    /\ event # NoEvent
    /\ event.line_type = "command_to_client"
    /\ log_processor.printed_tracebacks # {}
    /\ \E i \in DOMAIN emitted :
           /\ emitted[i].expired
           /\ event.parse_line_data[1][1] \in DOMAIN log_processor.client_id_to_game_id
           /\ log_processor.client_id_to_game_id[event.parse_line_data[1][1]] = emitted[i].game_id


(***************************************************************************)
(* The played tiles and the board (SpecCells).                             *)
(***************************************************************************)
\* C35: in every game played_tiles_order holds no coordinate twice, and
\* its coordinates are the board cells that are not empty.
C35_PlayedTilesAreTheFilledCells ==
    \A game \in OpenGames :
        /\ \A i, j \in DOMAIN game.played_tiles_order :
               game.played_tiles_order[i] = game.played_tiles_order[j] => i = j
        /\ Range(game.played_tiles_order) =
               {c \in Coordinates : game.board[c] # GameBoardTypeNothing}


(***************************************************************************)
(* A command to clients whose handler faults (SpecHistory).                *)
(***************************************************************************)
\* C36: when the handler of the one command of a batch faults, the games
\* and the maps of the LogProcessor are as they were before the batch.
C36_FaultedCommandChangesNothing ==
    [][( /\ LineIsRead
         /\ event'.line_type = "command_to_client"
         /\ Len(event'.parse_line_data[2]) = 1
         /\ 1 \in log_processor'.printed_tracebacks )
           => \A f \in DOMAIN log_processor \ {"printed_tracebacks"} :
                  log_processor'[f] = log_processor[f]]_vars


(***************************************************************************)
(* Connected clients at the end of a frame (SpecRouting: log_parser.lines  *)
(* holds the lines read so far).                                           *)
(***************************************************************************)
ConnectionLinesOf(c) ==
    {k \in DOMAIN log_parser.lines :
        /\ log_parser.lines[k].shape \in {"connect", "disconnect"}
        /\ log_parser.lines[k].client_id = c}
LastConnectionLineIsConnect(c) ==
    /\ ConnectionLinesOf(c) # {}
    /\ log_parser.lines[Max(ConnectionLinesOf(c))].shape = "connect"

\* C37: when a frame has ended, a client id is a key of the LogProcessor's
\* client_id_to_username exactly when the last connect or disconnect line
\* of that id is a connect line, and its username is the one of that line.
C37_ConnectedIffLastLineIsConnect ==
    (pc = "reading" /\ event # NoEvent /\ event.line_type = "blank_line")
        => \A c \in ClientIds :
               /\ OD_Has(log_processor.client_id_to_username, c) <=> LastConnectionLineIsConnect(c)
               /\ LastConnectionLineIsConnect(c)
                      => OD_Get(log_processor.client_id_to_username, c) =
                             log_parser.lines[Max(ConnectionLinesOf(c))].username


(***************************************************************************)
(* The two client maps of the LogProcessor (Spec).                         *)
(***************************************************************************)
\* C38: username_to_client_id is the inverse of client_id_to_username: as
\* many entries, and username -> client id in the one exactly when
\* client id -> username is in the other.
C38_UsernameMapIsInverse ==
    pc # "fault"
        => /\ Cardinality(DOMAIN log_processor.username_to_client_id) =
                  Len(log_processor.client_id_to_username)
           /\ \A c \in OD_Keys(log_processor.client_id_to_username) :
                  LET username == OD_Get(log_processor.client_id_to_username, c)
                  IN  /\ username \in DOMAIN log_processor.username_to_client_id
                      /\ log_processor.username_to_client_id[username] = c


(***************************************************************************)
(* The history compared for a player index (SpecOrder).                    *)
(***************************************************************************)
\* the history the log showed of the player with index i (counted from 0)
ObservedHistoryOfIndex(i) ==
    emitted[1].username_to_game_history[OD_Get(emitted[1].player_id_to_username, i)]

\* C39: the history compared with the simulation's history of player index
\* i is the observed history of the player with index i: a difference is
\* logged for index i exactly when that history is no prefix of the
\* simulation's, in whatever order the log named the players.
C39_HistoryOfIndexIsCompared ==
    pc = "compared"
        => \A i \in OD_Keys(emitted[1].player_id_to_username) :
               i < log_processor.num_players
                   => (LogsHistoryDiffOf(i + 1)
                          <=> ~IsPrefixOf(ObservedHistoryOfIndex(i), SimulationHistory(i + 1)))


(***************************************************************************)
(* The polling loop of cron.main (SpecCronFair).                           *)
(***************************************************************************)
\* the persisted position
CronPosition(kv) ==
    [filename |-> KeyValueInt(kv.last_filename), offset |-> KeyValueInt(kv.last_offset)]
IsBefore(a, b) ==
    a.filename < b.filename \/ (a.filename = b.filename /\ a.offset < b.offset)
\* in file filename of the directory a line starts at offset, begins with
\* "{" and has its newline
IsRecord(files, filename, offset) ==
    /\ filename \in DOMAIN files
    /\ offset < Len(files[filename])
    /\ offset = 0 \/ files[filename][offset] = "nl"
    /\ files[filename][offset + 1] = "{"
    /\ \E k \in (offset + 1)..Len(files[filename]) : files[filename][k] = "nl"
WasDispatched(filename, offset) ==
    \E k \in DOMAIN emitted : emitted[k] = [filename |-> filename, offset |-> offset]

\* C40: no record is dispatched twice and the records are dispatched in
\* the order of the files and of their lines; what an iteration dispatches
\* are lines of the directory that begin with "{" and have their newline;
\* the persisted position never moves backwards; and every such line is
\* dispatched in the end.
C40_EveryRecordDispatchedOnceInOrder ==
    /\ [](\A i, j \in DOMAIN emitted : i < j => IsBefore(emitted[i], emitted[j]))
    /\ [][/\ \A k \in (Len(emitted) + 1)..Len(emitted') :
                 IsRecord(log_parser.files, emitted'[k].filename, emitted'[k].offset)
          /\ ~IsBefore(CronPosition(log_processor'), CronPosition(log_processor))]_vars
    /\ \A filename \in 1..MaxFiles, offset \in 0..(MaxFileLen - 1) :
           IsRecord(log_parser.files, filename, offset) ~> WasDispatched(filename, offset)

====
